---- MODULE Spec2Model ----
(***************************************************************************)
(* DPSW (data-path L2 switch) command/response marshaling layer.           *)
(*                                                                         *)
(* Every public operation of dpsw.c builds one struct fsl_mc_command       *)
(* (header + payload), hands it to the transport (mc_send_command) and,    *)
(* on success, decodes the response that the transport left in the same    *)
(* buffer.  An operation is modelled as an operator                        *)
(*     dpsw_xxx(a, pre, st, r)                                             *)
(* of its arguments a, the pre-call content pre of its output parameters,  *)
(* the status st returned by the transport and the buffer r the transport  *)
(* left behind; it yields the commands submitted, the return value and the *)
(* post-call content of the output parameters.                             *)
(*                                                                         *)
(* Host integers are naturals; wire fields are arrays of bytes (functions  *)
(* from a 0-based index), little-endian where multi-byte.                  *)
(***************************************************************************)
EXTENDS Integers, Naturals, Sequences, FiniteSets, TLC

VARIABLES pc, op, args, pre, sent, err, rsp, ret, out,
          mac_pc, mac_host, mac_wire, mac_back,
          bm_pc, bm_in, bm_id, bm_num, bm_out,
          sess_open, sess_closed, stale,
          key_pc, key_in, key_prior, key_buf,
          th_pc, th_op, th_args, th_pre, th_err, th_rsp, th_sent, th_ret,
          th_out, th_buf

vars == <<pc, op, args, pre, sent, err, rsp, ret, out,
          mac_pc, mac_host, mac_wire, mac_back,
          bm_pc, bm_in, bm_id, bm_num, bm_out,
          sess_open, sess_closed, stale,
          key_pc, key_in, key_prior, key_buf,
          th_pc, th_op, th_args, th_pre, th_err, th_rsp, th_sent, th_ret,
          th_out, th_buf>>

callVars == <<pc, op, args, pre, sent, err, rsp, ret, out>>
macVars == <<mac_pc, mac_host, mac_wire, mac_back>>
bmVars == <<bm_pc, bm_in, bm_id, bm_num, bm_out>>
sessVars == <<sess_open, sess_closed, stale>>
\* the variables of the specifications that run beside the plain caller
keyVars == <<key_pc, key_in, key_prior, key_buf>>
thVars == <<th_pc, th_op, th_args, th_pre, th_err, th_rsp, th_sent, th_ret,
            th_out, th_buf>>
extVars == <<sessVars, keyVars, thVars>>

----------------------------------------------------------------------------
(* Bounds of the model *)

\* tokens 1..MaxToken are explored next to 0 and 0xFFFF
MaxToken == 1
\* number of patterned MAC addresses given to the operations
MaxMac == 2
\* bytes 1..MaxMacByte are explored next to 0x00 and 0xFF in the round trip
MaxMacByte == 1
\* length of the explored prefix of an interface id list
MaxIds == 2
\* entries an id array holds beyond DPSW_MAX_IF when the builder is run alone
ExtraIds == 2
\* length of the explored prefix of an id list when the builder is run alone
MaxBmIds == 3

----------------------------------------------------------------------------
(* Bit arithmetic on naturals below 2^31 *)

RECURSIVE Pow2(_)
Pow2(n) == IF n = 0 THEN 1 ELSE 2 * Pow2(n - 1)

RECURSIVE BitAnd(_, _)
BitAnd(x, y) ==
    IF x = 0 \/ y = 0 THEN 0
    ELSE (x % 2) * (y % 2) + 2 * BitAnd(x \div 2, y \div 2)

RECURSIVE BitOr(_, _)
BitOr(x, y) ==
    IF x = 0 THEN y
    ELSE IF y = 0 THEN x
    ELSE (IF x % 2 = 1 \/ y % 2 = 1 THEN 1 ELSE 0)
         + 2 * BitOr(x \div 2, y \div 2)

\* assignment to a u8 / u16 lvalue
U8(x) == x % 256
U16(x) == x % 65536

----------------------------------------------------------------------------
(* Scalar field codec: little-endian byte arrays *)

cpu_to_le16(v) == [k \in 0..1 |-> (v \div Pow2(8 * k)) % 256]
le16_to_cpu(b) == b[0] + 256 * b[1]

\* host values are kept below 2^31, so bytes 4..7 of a 64-bit field are 0
cpu_to_le32(v) == [k \in 0..3 |-> (v \div Pow2(8 * k)) % 256]
le32_to_cpu(b) == b[0] + 256 * b[1] + 65536 * b[2] + 16777216 * b[3]

cpu_to_le64(v) == [k \in 0..7 |-> IF k < 4 THEN (v \div Pow2(8 * k)) % 256 ELSE 0]
le64_to_cpu(b) == b[0] + 256 * b[1] + 65536 * b[2] + 16777216 * b[3]

\* cpu_to_le64(BIT_MASK(n)): the eight bytes of 1 << n, 0 <= n < 64
le64_bit(n) == [k \in 0..7 |-> IF k = n \div 8 THEN Pow2(n % 8) ELSE 0]

\* a |= b on two __le64 words (written out byte by byte)
le64_or(a, b) ==
    (0 :> BitOr(a[0], b[0])) @@ (1 :> BitOr(a[1], b[1])) @@
    (2 :> BitOr(a[2], b[2])) @@ (3 :> BitOr(a[3], b[3])) @@
    (4 :> BitOr(a[4], b[4])) @@ (5 :> BitOr(a[5], b[5])) @@
    (6 :> BitOr(a[6], b[6])) @@ (7 :> BitOr(a[7], b[7]))

le64_zero == [k \in 0..7 |-> 0]

----------------------------------------------------------------------------
(* Packed sub-byte fields (dpsw-cmd.h) *)

DPSW_ENABLE == [shift |-> 0, size |-> 1]
DPSW_COMPONENT_TYPE == [shift |-> 0, size |-> 4]
DPSW_VLAN_ID == [shift |-> 0, size |-> 12]
DPSW_DEI == [shift |-> 12, size |-> 1]
DPSW_PCP == [shift |-> 13, size |-> 3]
DPSW_STATE == [shift |-> 0, size |-> 4]
DPSW_COUNTER_TYPE == [shift |-> 0, size |-> 5]
DPSW_ADMIT_UNTAGGED == [shift |-> 0, size |-> 4]
DPSW_ACCEPT_ALL_VLAN == [shift |-> 6, size |-> 1]
DPSW_UP == [shift |-> 0, size |-> 1]
DPSW_ENTRY_TYPE == [shift |-> 0, size |-> 4]
DPSW_LEARNING_MODE == [shift |-> 0, size |-> 4]
DPSW_RESULT_ACTION == [shift |-> 0, size |-> 4]

\* GENMASK(shift + size - 1, shift)
DPSW_MASK(field) == Pow2(field.shift + field.size) - Pow2(field.shift)

\* (var) |= (((val) << SHIFT) & MASK): the new value of var
dpsw_set_field(var, field, val) ==
    BitOr(var, BitAnd(val * Pow2(field.shift), DPSW_MASK(field)))

\* ((var) & MASK) >> SHIFT
dpsw_get_field(var, field) ==
    BitAnd(var, DPSW_MASK(field)) \div Pow2(field.shift)

----------------------------------------------------------------------------
(* Command header codec (linux/fsl/mc.h) *)

MC_CMD_FLAG_PRI == 128
MC_CMD_FLAG_INTR_DIS == 1

mc_encode_cmd_header(cmd_id, cmd_flags, token) ==
    [cmd_id |-> cmd_id,
     token |-> cpu_to_le16(token),
     flags_hw |-> IF BitAnd(cmd_flags, MC_CMD_FLAG_PRI) # 0
                  THEN MC_CMD_FLAG_PRI ELSE 0,
     flags_sw |-> IF BitAnd(cmd_flags, MC_CMD_FLAG_INTR_DIS) # 0
                  THEN MC_CMD_FLAG_INTR_DIS ELSE 0]

mc_cmd_hdr_read_token(cmd) == le16_to_cpu(cmd.header.token)

\* struct fsl_mc_command cmd = { 0 } with its header and payload then written
Cmd(header, params) == [header |-> header, params |-> params]

----------------------------------------------------------------------------
(* Values the caller and the transport may supply *)

CmdFlags == {0, MC_CMD_FLAG_INTR_DIS, MC_CMD_FLAG_PRI}
Tokens == {0, 65535} \cup 1..MaxToken
\* transport status: 0 is success, anything else an opaque failure code
Status == {0, -110, -5, 7}
\* (cmd_flags, token) pairs every token-taking operation is called with
Ctx == CmdFlags \X Tokens
\* the pairs used where the other arguments are explored widely
CtxLite == {0} \X Tokens

U16Vals == {0, 4660, 65535}
U32Vals == {0, 305419896}
BoolVals == {0, 1, 2, 255}

\* patterned MAC addresses: all bytes distinct, plus all-zero and broadcast
PatternMacs ==
    {[i \in 0..5 |-> (17 * k + i + 1) % 256] : k \in 0..(MaxMac - 1)}
MacAddrs == PatternMacs \cup {[i \in 0..5 |-> 0], [i \in 0..5 |-> 255]}

NoOut == <<>>
\* the buffer after a command whose response is not decoded
NoRsp == [header |-> [token |-> cpu_to_le16(0)], params |-> <<>>]

----------------------------------------------------------------------------
(* Interface-set bitmap codec *)

DPSW_MAX_IF == 64

\* the loop body without its range test on id[i]
build_if_id_bitmap_step_unguarded(bmap, id, i) ==
    [bmap EXCEPT ![id[i] \div 64] = le64_or(@, le64_bit(id[i] % 64))]

\* the loop body or-ing into its word and zeroing the other words
build_if_id_bitmap_step_clears_rest(bmap, id, i) ==
    IF id[i] < DPSW_MAX_IF
    THEN [w \in DOMAIN bmap |->
            IF w = id[i] \div 64 THEN le64_or(bmap[w], le64_bit(id[i] % 64))
            ELSE le64_zero]
    ELSE bmap

\* the loop body assigning the word instead of or-ing into it
build_if_id_bitmap_step_assign(bmap, id, i) ==
    IF id[i] < DPSW_MAX_IF
    THEN [bmap EXCEPT ![id[i] \div 64] = le64_bit(id[i] % 64)]
    ELSE bmap

\* one iteration of the loop body for index i
build_if_id_bitmap_step(bmap, id, i) ==
    IF id[i] < DPSW_MAX_IF
    THEN [bmap EXCEPT ![id[i] \div 64] = le64_or(@, le64_bit(id[i] % 64))]
    ELSE bmap

\* the loop bound without the cap at DPSW_MAX_IF
build_if_id_bitmap_iters_uncapped(num_ifs) == num_ifs

\* the number of iterations of
\*   for (i = 0; (i < num_ifs) && (i < DPSW_MAX_IF); i++)
build_if_id_bitmap_iters(num_ifs) ==
    IF num_ifs < DPSW_MAX_IF THEN num_ifs ELSE DPSW_MAX_IF

\* the bitmap after the iterations i = lo .. hi-1, run in that order on bmap
\* (the test on next only makes each iteration's result a value before the
\* following iteration starts)
RECURSIVE build_if_id_bitmap_loop(_, _, _, _)
build_if_id_bitmap_loop(bmap, id, lo, hi) ==
    IF hi <= lo THEN bmap
    ELSE LET next == build_if_id_bitmap_step(bmap, id, lo)
         IN  IF next = next
             THEN build_if_id_bitmap_loop(next, id, lo + 1, hi)
             ELSE next

build_if_id_bitmap(bmap, id, num_ifs) ==
    build_if_id_bitmap_loop(bmap, id, 0, build_if_id_bitmap_iters(num_ifs))

\* the if_id[] member of a zeroed command followed by the next payload word
ZeroBitmap == [w \in 0..1 |-> le64_zero]


----------------------------------------------------------------------------
(* Per-operation command builders *)

\* what a call leaves behind: commands handed to mc_send_command, in order,
\* the value returned and the content of the output parameters
Result(cmds, rv, o) == [sent |-> cmds, ret |-> rv, out |-> o]

\* the token taken from the buffer before the transport has answered
dpsw_open_token_before_send(a, p, st, r) ==
    LET cmd == Cmd(mc_encode_cmd_header("DPSW_CMDID_OPEN", a.cmd_flags, 0),
                   [dpsw_id |-> cpu_to_le32(a.dpsw_id)])
    IN  IF st # 0 THEN Result(<<cmd>>, st, p)
        ELSE Result(<<cmd>>, 0, [p EXCEPT !.token = mc_cmd_hdr_read_token(cmd)])

dpsw_open(a, p, st, r) ==
    LET cmd == Cmd(mc_encode_cmd_header("DPSW_CMDID_OPEN", a.cmd_flags, 0),
                   [dpsw_id |-> cpu_to_le32(a.dpsw_id)])
    IN  IF st # 0 THEN Result(<<cmd>>, st, p)
        ELSE Result(<<cmd>>, 0, [p EXCEPT !.token = mc_cmd_hdr_read_token(r)])

\* the transport's status dropped
dpsw_close_status_dropped(a, p, st, r) ==
    LET cmd == Cmd(mc_encode_cmd_header("DPSW_CMDID_CLOSE", a.cmd_flags, a.token),
                   <<>>)
    IN  Result(<<cmd>>, 0, p)

dpsw_close(a, p, st, r) ==
    LET cmd == Cmd(mc_encode_cmd_header("DPSW_CMDID_CLOSE", a.cmd_flags, a.token),
                   <<>>)
    IN  Result(<<cmd>>, st, p)

\* the header built without the caller's token
dpsw_enable_without_token(a, p, st, r) ==
    LET cmd == Cmd(mc_encode_cmd_header("DPSW_CMDID_ENABLE", a.cmd_flags, 0),
                   <<>>)
    IN  Result(<<cmd>>, st, p)

dpsw_enable(a, p, st, r) ==
    LET cmd == Cmd(mc_encode_cmd_header("DPSW_CMDID_ENABLE", a.cmd_flags, a.token),
                   <<>>)
    IN  Result(<<cmd>>, st, p)

dpsw_disable(a, p, st, r) ==
    LET cmd == Cmd(mc_encode_cmd_header("DPSW_CMDID_DISABLE", a.cmd_flags, a.token),
                   <<>>)
    IN  Result(<<cmd>>, st, p)

dpsw_reset(a, p, st, r) ==
    LET cmd == Cmd(mc_encode_cmd_header("DPSW_CMDID_RESET", a.cmd_flags, a.token),
                   <<>>)
    IN  Result(<<cmd>>, st, p)

dpsw_set_irq_enable(a, p, st, r) ==
    LET cmd == Cmd(mc_encode_cmd_header("DPSW_CMDID_SET_IRQ_ENABLE",
                                        a.cmd_flags, a.token),
                   [enable_state |-> U8(dpsw_set_field(0, DPSW_ENABLE, a.en)),
                    irq_index |-> a.irq_index])
    IN  Result(<<cmd>>, st, p)

dpsw_set_irq_mask(a, p, st, r) ==
    LET cmd == Cmd(mc_encode_cmd_header("DPSW_CMDID_SET_IRQ_MASK",
                                        a.cmd_flags, a.token),
                   [mask |-> cpu_to_le32(a.mask),
                    irq_index |-> a.irq_index])
    IN  Result(<<cmd>>, st, p)

\* the command built without reading *status
dpsw_get_irq_status_sends_zero(a, p, st, r) ==
    LET cmd == Cmd(mc_encode_cmd_header("DPSW_CMDID_GET_IRQ_STATUS",
                                        a.cmd_flags, a.token),
                   [status |-> cpu_to_le32(0),
                    irq_index |-> a.irq_index])
    IN  IF st # 0 THEN Result(<<cmd>>, st, p)
        ELSE Result(<<cmd>>, 0,
                    [p EXCEPT !.status = le32_to_cpu(r.params.status)])

\* a failure reported with its sign changed
dpsw_get_irq_status_negated(a, p, st, r) ==
    LET cmd == Cmd(mc_encode_cmd_header("DPSW_CMDID_GET_IRQ_STATUS",
                                        a.cmd_flags, a.token),
                   [status |-> cpu_to_le32(p.status),
                    irq_index |-> a.irq_index])
    IN  IF st # 0 THEN Result(<<cmd>>, 0 - st, p)
        ELSE Result(<<cmd>>, 0,
                    [p EXCEPT !.status = le32_to_cpu(r.params.status)])

dpsw_get_irq_status(a, p, st, r) ==
    LET cmd == Cmd(mc_encode_cmd_header("DPSW_CMDID_GET_IRQ_STATUS",
                                        a.cmd_flags, a.token),
                   [status |-> cpu_to_le32(p.status),
                    irq_index |-> a.irq_index])
    IN  IF st # 0 THEN Result(<<cmd>>, st, p)
        ELSE Result(<<cmd>>, 0,
                    [p EXCEPT !.status = le32_to_cpu(r.params.status)])

dpsw_clear_irq_status(a, p, st, r) ==
    LET cmd == Cmd(mc_encode_cmd_header("DPSW_CMDID_CLEAR_IRQ_STATUS",
                                        a.cmd_flags, a.token),
                   [status |-> cpu_to_le32(a.status),
                    irq_index |-> a.irq_index])
    IN  Result(<<cmd>>, st, p)

\* the response decoded with the assignment to attr->num_vlans left out
dpsw_get_attributes_skips_num_vlans(a, p, st, r) ==
    LET cmd == Cmd(mc_encode_cmd_header("DPSW_CMDID_GET_ATTR",
                                        a.cmd_flags, a.token),
                   <<>>)
        rsp_params == r.params
    IN  IF st # 0 THEN Result(<<cmd>>, st, p)
        ELSE Result(<<cmd>>, 0,
               [p EXCEPT
                  !.num_ifs = le16_to_cpu(rsp_params.num_ifs),
                  !.max_fdbs = rsp_params.max_fdbs,
                  !.num_fdbs = rsp_params.num_fdbs,
                  !.max_vlans = le16_to_cpu(rsp_params.max_vlans),
                  !.max_fdb_entries = le16_to_cpu(rsp_params.max_fdb_entries),
                  !.fdb_aging_time = le16_to_cpu(rsp_params.fdb_aging_time),
                  !.id = le32_to_cpu(rsp_params.dpsw_id),
                  !.mem_size = le16_to_cpu(rsp_params.mem_size),
                  !.max_fdb_mc_groups = le16_to_cpu(rsp_params.max_fdb_mc_groups),
                  !.max_meters_per_if = rsp_params.max_meters_per_if,
                  !.options = le64_to_cpu(rsp_params.options),
                  !.component_type = dpsw_get_field(rsp_params.component_type,
                                                    DPSW_COMPONENT_TYPE)])

dpsw_get_attributes(a, p, st, r) ==
    LET cmd == Cmd(mc_encode_cmd_header("DPSW_CMDID_GET_ATTR",
                                        a.cmd_flags, a.token),
                   <<>>)
        rsp_params == r.params
    IN  IF st # 0 THEN Result(<<cmd>>, st, p)
        ELSE Result(<<cmd>>, 0,
               [p EXCEPT
                  !.num_ifs = le16_to_cpu(rsp_params.num_ifs),
                  !.max_fdbs = rsp_params.max_fdbs,
                  !.num_fdbs = rsp_params.num_fdbs,
                  !.max_vlans = le16_to_cpu(rsp_params.max_vlans),
                  !.num_vlans = le16_to_cpu(rsp_params.num_vlans),
                  !.max_fdb_entries = le16_to_cpu(rsp_params.max_fdb_entries),
                  !.fdb_aging_time = le16_to_cpu(rsp_params.fdb_aging_time),
                  !.id = le32_to_cpu(rsp_params.dpsw_id),
                  !.mem_size = le16_to_cpu(rsp_params.mem_size),
                  !.max_fdb_mc_groups = le16_to_cpu(rsp_params.max_fdb_mc_groups),
                  !.max_meters_per_if = rsp_params.max_meters_per_if,
                  !.options = le64_to_cpu(rsp_params.options),
                  !.component_type = dpsw_get_field(rsp_params.component_type,
                                                    DPSW_COMPONENT_TYPE)])

\* admit_untagged taken as the whole conf byte
dpsw_if_get_attributes_whole_conf(a, p, st, r) ==
    LET cmd == Cmd(mc_encode_cmd_header("DPSW_CMDID_IF_GET_ATTR",
                                        a.cmd_flags, a.token),
                   [if_id |-> cpu_to_le16(a.if_id)])
        rsp_params == r.params
    IN  IF st # 0 THEN Result(<<cmd>>, st, p)
        ELSE Result(<<cmd>>, 0,
               [p EXCEPT
                  !.num_tcs = rsp_params.num_tcs,
                  !.rate = le32_to_cpu(rsp_params.rate),
                  !.options = le32_to_cpu(rsp_params.options),
                  !.qdid = le16_to_cpu(rsp_params.qdid),
                  !.enabled = dpsw_get_field(rsp_params.conf, DPSW_ENABLE),
                  !.accept_all_vlan = dpsw_get_field(rsp_params.conf,
                                                     DPSW_ACCEPT_ALL_VLAN),
                  !.admit_untagged = rsp_params.conf])

dpsw_if_get_attributes(a, p, st, r) ==
    LET cmd == Cmd(mc_encode_cmd_header("DPSW_CMDID_IF_GET_ATTR",
                                        a.cmd_flags, a.token),
                   [if_id |-> cpu_to_le16(a.if_id)])
        rsp_params == r.params
    IN  IF st # 0 THEN Result(<<cmd>>, st, p)
        ELSE Result(<<cmd>>, 0,
               [p EXCEPT
                  !.num_tcs = rsp_params.num_tcs,
                  !.rate = le32_to_cpu(rsp_params.rate),
                  !.options = le32_to_cpu(rsp_params.options),
                  !.qdid = le16_to_cpu(rsp_params.qdid),
                  !.enabled = dpsw_get_field(rsp_params.conf, DPSW_ENABLE),
                  !.accept_all_vlan = dpsw_get_field(rsp_params.conf,
                                                     DPSW_ACCEPT_ALL_VLAN),
                  !.admit_untagged = dpsw_get_field(rsp_params.conf,
                                                    DPSW_ADMIT_UNTAGGED)])

\* the rate stored most significant byte first
dpsw_if_set_link_cfg_big_endian(a, p, st, r) ==
    LET cmd == Cmd(mc_encode_cmd_header("DPSW_CMDID_IF_SET_LINK_CFG",
                                        a.cmd_flags, a.token),
                   [if_id |-> cpu_to_le16(a.if_id),
                    rate |-> [k \in 0..3 |-> cpu_to_le32(a.cfg.rate)[3 - k]],
                    options |-> cpu_to_le64(a.cfg.options)])
    IN  Result(<<cmd>>, st, p)

dpsw_if_set_link_cfg(a, p, st, r) ==
    LET cmd == Cmd(mc_encode_cmd_header("DPSW_CMDID_IF_SET_LINK_CFG",
                                        a.cmd_flags, a.token),
                   [if_id |-> cpu_to_le16(a.if_id),
                    rate |-> cpu_to_le32(a.cfg.rate),
                    options |-> cpu_to_le64(a.cfg.options)])
    IN  Result(<<cmd>>, st, p)

dpsw_if_get_link_state(a, p, st, r) ==
    LET cmd == Cmd(mc_encode_cmd_header("DPSW_CMDID_IF_GET_LINK_STATE",
                                        a.cmd_flags, a.token),
                   [if_id |-> cpu_to_le16(a.if_id)])
        rsp_params == r.params
    IN  IF st # 0 THEN Result(<<cmd>>, st, p)
        ELSE Result(<<cmd>>, 0,
               [p EXCEPT
                  !.rate = le32_to_cpu(rsp_params.rate),
                  !.options = le64_to_cpu(rsp_params.options),
                  !.up = dpsw_get_field(rsp_params.up, DPSW_UP)])

dpsw_if_set_flooding(a, p, st, r) ==
    LET cmd == Cmd(mc_encode_cmd_header("DPSW_CMDID_IF_SET_FLOODING",
                                        a.cmd_flags, a.token),
                   [if_id |-> cpu_to_le16(a.if_id),
                    enable |-> U8(dpsw_set_field(0, DPSW_ENABLE, a.en))])
    IN  Result(<<cmd>>, st, p)

dpsw_if_set_broadcast(a, p, st, r) ==
    LET cmd == Cmd(mc_encode_cmd_header("DPSW_CMDID_IF_SET_BROADCAST",
                                        a.cmd_flags, a.token),
                   [if_id |-> cpu_to_le16(a.if_id),
                    enable |-> U8(dpsw_set_field(0, DPSW_ENABLE, a.en))])
    IN  Result(<<cmd>>, st, p)

\* pcp and dei written to each other's field
dpsw_if_set_tci_swapped(a, p, st, r) ==
    LET tmp_conf0 == 0
        tmp_conf1 == U16(dpsw_set_field(tmp_conf0, DPSW_VLAN_ID, a.cfg.vlan_id))
        tmp_conf2 == U16(dpsw_set_field(tmp_conf1, DPSW_DEI, a.cfg.pcp))
        tmp_conf3 == U16(dpsw_set_field(tmp_conf2, DPSW_PCP, a.cfg.dei))
        cmd == Cmd(mc_encode_cmd_header("DPSW_CMDID_IF_SET_TCI",
                                        a.cmd_flags, a.token),
                   [if_id |-> cpu_to_le16(a.if_id),
                    conf |-> cpu_to_le16(tmp_conf3)])
    IN  Result(<<cmd>>, st, p)

\* vlan_id or-ed into the slot without the field's mask
dpsw_if_set_tci_unmasked(a, p, st, r) ==
    LET tmp_conf0 == 0
        tmp_conf1 == U16(BitOr(tmp_conf0, a.cfg.vlan_id))
        tmp_conf2 == U16(dpsw_set_field(tmp_conf1, DPSW_DEI, a.cfg.dei))
        tmp_conf3 == U16(dpsw_set_field(tmp_conf2, DPSW_PCP, a.cfg.pcp))
        cmd == Cmd(mc_encode_cmd_header("DPSW_CMDID_IF_SET_TCI",
                                        a.cmd_flags, a.token),
                   [if_id |-> cpu_to_le16(a.if_id),
                    conf |-> cpu_to_le16(tmp_conf3)])
    IN  Result(<<cmd>>, st, p)

dpsw_if_set_tci(a, p, st, r) ==
    LET tmp_conf0 == 0
        tmp_conf1 == U16(dpsw_set_field(tmp_conf0, DPSW_VLAN_ID, a.cfg.vlan_id))
        tmp_conf2 == U16(dpsw_set_field(tmp_conf1, DPSW_DEI, a.cfg.dei))
        tmp_conf3 == U16(dpsw_set_field(tmp_conf2, DPSW_PCP, a.cfg.pcp))
        cmd == Cmd(mc_encode_cmd_header("DPSW_CMDID_IF_SET_TCI",
                                        a.cmd_flags, a.token),
                   [if_id |-> cpu_to_le16(a.if_id),
                    conf |-> cpu_to_le16(tmp_conf3)])
    IN  Result(<<cmd>>, st, p)

\* each returned value cut down to the width set packs it in
dpsw_if_get_tci_masked(a, p, st, r) ==
    LET cmd == Cmd(mc_encode_cmd_header("DPSW_CMDID_IF_GET_TCI",
                                        a.cmd_flags, a.token),
                   [if_id |-> cpu_to_le16(a.if_id)])
        rsp_params == r.params
    IN  IF st # 0 THEN Result(<<cmd>>, st, p)
        ELSE Result(<<cmd>>, 0,
               [p EXCEPT
                  !.pcp = rsp_params.pcp % 8,
                  !.dei = rsp_params.dei % 2,
                  !.vlan_id = le16_to_cpu(rsp_params.vlan_id) % 4096])

dpsw_if_get_tci(a, p, st, r) ==
    LET cmd == Cmd(mc_encode_cmd_header("DPSW_CMDID_IF_GET_TCI",
                                        a.cmd_flags, a.token),
                   [if_id |-> cpu_to_le16(a.if_id)])
        rsp_params == r.params
    IN  IF st # 0 THEN Result(<<cmd>>, st, p)
        ELSE Result(<<cmd>>, 0,
               [p EXCEPT
                  !.pcp = rsp_params.pcp,
                  !.dei = rsp_params.dei,
                  !.vlan_id = le16_to_cpu(rsp_params.vlan_id)])

dpsw_if_set_stp(a, p, st, r) ==
    LET cmd == Cmd(mc_encode_cmd_header("DPSW_CMDID_IF_SET_STP",
                                        a.cmd_flags, a.token),
                   [if_id |-> cpu_to_le16(a.if_id),
                    vlan_id |-> cpu_to_le16(a.cfg.vlan_id),
                    state |-> U8(dpsw_set_field(0, DPSW_STATE, a.cfg.state))])
    IN  Result(<<cmd>>, st, p)

\* the command submitted a second time when the transport fails
dpsw_if_get_counter_retried(a, p, st, r) ==
    LET cmd == Cmd(mc_encode_cmd_header("DPSW_CMDID_IF_GET_COUNTER",
                                        a.cmd_flags, a.token),
                   [if_id |-> cpu_to_le16(a.if_id),
                    type |-> U8(dpsw_set_field(0, DPSW_COUNTER_TYPE, a.type))])
    IN  IF st # 0 THEN Result(<<cmd, cmd>>, st, p)
        ELSE Result(<<cmd>>, 0,
                    [p EXCEPT !.counter = le64_to_cpu(r.params.counter)])

dpsw_if_get_counter(a, p, st, r) ==
    LET cmd == Cmd(mc_encode_cmd_header("DPSW_CMDID_IF_GET_COUNTER",
                                        a.cmd_flags, a.token),
                   [if_id |-> cpu_to_le16(a.if_id),
                    type |-> U8(dpsw_set_field(0, DPSW_COUNTER_TYPE, a.type))])
    IN  IF st # 0 THEN Result(<<cmd>>, st, p)
        ELSE Result(<<cmd>>, 0,
                    [p EXCEPT !.counter = le64_to_cpu(r.params.counter)])

dpsw_if_enable(a, p, st, r) ==
    LET cmd == Cmd(mc_encode_cmd_header("DPSW_CMDID_IF_ENABLE",
                                        a.cmd_flags, a.token),
                   [if_id |-> cpu_to_le16(a.if_id)])
    IN  Result(<<cmd>>, st, p)

dpsw_if_disable(a, p, st, r) ==
    LET cmd == Cmd(mc_encode_cmd_header("DPSW_CMDID_IF_DISABLE",
                                        a.cmd_flags, a.token),
                   [if_id |-> cpu_to_le16(a.if_id)])
    IN  Result(<<cmd>>, st, p)

dpsw_if_set_max_frame_length(a, p, st, r) ==
    LET cmd == Cmd(mc_encode_cmd_header("DPSW_CMDID_IF_SET_MAX_FRAME_LENGTH",
                                        a.cmd_flags, a.token),
                   [if_id |-> cpu_to_le16(a.if_id),
                    frame_length |-> cpu_to_le16(a.frame_length)])
    IN  Result(<<cmd>>, st, p)

\* a VLAN id above 0xFFF refused before anything is submitted
dpsw_vlan_add_range_checked(a, p, st, r) ==
    LET cmd == Cmd(mc_encode_cmd_header("DPSW_CMDID_VLAN_ADD",
                                        a.cmd_flags, a.token),
                   [fdb_id |-> cpu_to_le16(a.cfg.fdb_id),
                    vlan_id |-> cpu_to_le16(a.vlan_id)])
    IN  IF a.vlan_id > 4095 THEN Result(<<>>, -22, p)
        ELSE Result(<<cmd>>, st, p)

dpsw_vlan_add(a, p, st, r) ==
    LET cmd == Cmd(mc_encode_cmd_header("DPSW_CMDID_VLAN_ADD",
                                        a.cmd_flags, a.token),
                   [fdb_id |-> cpu_to_le16(a.cfg.fdb_id),
                    vlan_id |-> cpu_to_le16(a.vlan_id)])
    IN  Result(<<cmd>>, st, p)

dpsw_vlan_add_if(a, p, st, r) ==
    LET cmd == Cmd(mc_encode_cmd_header("DPSW_CMDID_VLAN_ADD_IF",
                                        a.cmd_flags, a.token),
                   [vlan_id |-> cpu_to_le16(a.vlan_id),
                    if_id |-> build_if_id_bitmap(ZeroBitmap, a.cfg.if_id,
                                                 a.cfg.num_ifs)])
    IN  Result(<<cmd>>, st, p)

dpsw_vlan_add_if_untagged(a, p, st, r) ==
    LET cmd == Cmd(mc_encode_cmd_header("DPSW_CMDID_VLAN_ADD_IF_UNTAGGED",
                                        a.cmd_flags, a.token),
                   [vlan_id |-> cpu_to_le16(a.vlan_id),
                    if_id |-> build_if_id_bitmap(ZeroBitmap, a.cfg.if_id,
                                                 a.cfg.num_ifs)])
    IN  Result(<<cmd>>, st, p)

dpsw_vlan_remove_if(a, p, st, r) ==
    LET cmd == Cmd(mc_encode_cmd_header("DPSW_CMDID_VLAN_REMOVE_IF",
                                        a.cmd_flags, a.token),
                   [vlan_id |-> cpu_to_le16(a.vlan_id),
                    if_id |-> build_if_id_bitmap(ZeroBitmap, a.cfg.if_id,
                                                 a.cfg.num_ifs)])
    IN  Result(<<cmd>>, st, p)

dpsw_vlan_remove_if_untagged(a, p, st, r) ==
    LET cmd == Cmd(mc_encode_cmd_header("DPSW_CMDID_VLAN_REMOVE_IF_UNTAGGED",
                                        a.cmd_flags, a.token),
                   [vlan_id |-> cpu_to_le16(a.vlan_id),
                    if_id |-> build_if_id_bitmap(ZeroBitmap, a.cfg.if_id,
                                                 a.cfg.num_ifs)])
    IN  Result(<<cmd>>, st, p)

dpsw_vlan_remove(a, p, st, r) ==
    LET cmd == Cmd(mc_encode_cmd_header("DPSW_CMDID_VLAN_REMOVE",
                                        a.cmd_flags, a.token),
                   [vlan_id |-> cpu_to_le16(a.vlan_id)])
    IN  Result(<<cmd>>, st, p)

dpsw_fdb_add_unicast(a, p, st, r) ==
    LET cmd == Cmd(mc_encode_cmd_header("DPSW_CMDID_FDB_ADD_UNICAST",
                                        a.cmd_flags, a.token),
                   [fdb_id |-> cpu_to_le16(a.fdb_id),
                    if_egress |-> cpu_to_le16(a.cfg.if_egress),
                    mac_addr |-> [i \in 0..5 |-> a.cfg.mac_addr[5 - i]],
                    type |-> U8(dpsw_set_field(0, DPSW_ENTRY_TYPE, a.cfg.type))])
    IN  Result(<<cmd>>, st, p)

dpsw_fdb_dump(a, p, st, r) ==
    LET cmd == Cmd(mc_encode_cmd_header("DPSW_CMDID_FDB_DUMP",
                                        a.cmd_flags, a.token),
                   [fdb_id |-> cpu_to_le16(a.fdb_id),
                    iova_addr |-> cpu_to_le64(a.iova_addr),
                    iova_size |-> cpu_to_le32(a.iova_size)])
    IN  IF st # 0 THEN Result(<<cmd>>, st, p)
        ELSE Result(<<cmd>>, 0,
                    [p EXCEPT !.num_entries = le16_to_cpu(r.params.num_entries)])

dpsw_fdb_remove_unicast(a, p, st, r) ==
    LET cmd == Cmd(mc_encode_cmd_header("DPSW_CMDID_FDB_REMOVE_UNICAST",
                                        a.cmd_flags, a.token),
                   [fdb_id |-> cpu_to_le16(a.fdb_id),
                    if_egress |-> cpu_to_le16(a.cfg.if_egress),
                    mac_addr |-> [i \in 0..5 |-> a.cfg.mac_addr[5 - i]],
                    type |-> U8(dpsw_set_field(0, DPSW_ENTRY_TYPE, a.cfg.type))])
    IN  Result(<<cmd>>, st, p)

dpsw_fdb_add_multicast(a, p, st, r) ==
    LET cmd == Cmd(mc_encode_cmd_header("DPSW_CMDID_FDB_ADD_MULTICAST",
                                        a.cmd_flags, a.token),
                   [fdb_id |-> cpu_to_le16(a.fdb_id),
                    num_ifs |-> cpu_to_le16(a.cfg.num_ifs),
                    type |-> U8(dpsw_set_field(0, DPSW_ENTRY_TYPE, a.cfg.type)),
                    if_id |-> build_if_id_bitmap(ZeroBitmap, a.cfg.if_id,
                                                 a.cfg.num_ifs),
                    mac_addr |-> [i \in 0..5 |-> a.cfg.mac_addr[5 - i]]])
    IN  Result(<<cmd>>, st, p)

\* the command with the address copied in host order
dpsw_fdb_remove_multicast_unreversed(a, p, st, r) ==
    LET cmd == Cmd(mc_encode_cmd_header("DPSW_CMDID_FDB_REMOVE_MULTICAST",
                                        a.cmd_flags, a.token),
                   [fdb_id |-> cpu_to_le16(a.fdb_id),
                    num_ifs |-> cpu_to_le16(a.cfg.num_ifs),
                    type |-> U8(dpsw_set_field(0, DPSW_ENTRY_TYPE, a.cfg.type)),
                    if_id |-> build_if_id_bitmap(ZeroBitmap, a.cfg.if_id,
                                                 a.cfg.num_ifs),
                    mac_addr |-> [i \in 0..5 |-> a.cfg.mac_addr[i]]])
    IN  Result(<<cmd>>, st, p)

dpsw_fdb_remove_multicast(a, p, st, r) ==
    LET cmd == Cmd(mc_encode_cmd_header("DPSW_CMDID_FDB_REMOVE_MULTICAST",
                                        a.cmd_flags, a.token),
                   [fdb_id |-> cpu_to_le16(a.fdb_id),
                    num_ifs |-> cpu_to_le16(a.cfg.num_ifs),
                    type |-> U8(dpsw_set_field(0, DPSW_ENTRY_TYPE, a.cfg.type)),
                    if_id |-> build_if_id_bitmap(ZeroBitmap, a.cfg.if_id,
                                                 a.cfg.num_ifs),
                    mac_addr |-> [i \in 0..5 |-> a.cfg.mac_addr[5 - i]]])
    IN  Result(<<cmd>>, st, p)

dpsw_fdb_set_learning_mode(a, p, st, r) ==
    LET cmd == Cmd(mc_encode_cmd_header("DPSW_CMDID_FDB_SET_LEARNING_MODE",
                                        a.cmd_flags, a.token),
                   [fdb_id |-> cpu_to_le16(a.fdb_id),
                    mode |-> U8(dpsw_set_field(0, DPSW_LEARNING_MODE, a.mode))])
    IN  Result(<<cmd>>, st, p)

dpsw_get_api_version(a, p, st, r) ==
    LET cmd == Cmd(mc_encode_cmd_header("DPSW_CMDID_GET_API_VERSION",
                                        a.cmd_flags, 0),
                   <<>>)
        rsp_params == r.params
    IN  IF st # 0 THEN Result(<<cmd>>, st, p)
        ELSE Result(<<cmd>>, 0,
               [p EXCEPT
                  !.major_ver = le16_to_cpu(rsp_params.version_major),
                  !.minor_ver = le16_to_cpu(rsp_params.version_minor)])

\* the response address copied without the reversal
dpsw_if_get_port_mac_addr_copied(a, p, st, r) ==
    LET cmd == Cmd(mc_encode_cmd_header("DPSW_CMDID_IF_GET_PORT_MAC_ADDR",
                                        a.cmd_flags, a.token),
                   [if_id |-> cpu_to_le16(a.if_id)])
        rsp_params == r.params
    IN  IF st # 0 THEN Result(<<cmd>>, st, p)
        ELSE Result(<<cmd>>, 0,
               [p EXCEPT !.mac_addr = [j \in 0..5 |-> rsp_params.mac_addr[j]]])

dpsw_if_get_port_mac_addr(a, p, st, r) ==
    LET cmd == Cmd(mc_encode_cmd_header("DPSW_CMDID_IF_GET_PORT_MAC_ADDR",
                                        a.cmd_flags, a.token),
                   [if_id |-> cpu_to_le16(a.if_id)])
        rsp_params == r.params
    IN  IF st # 0 THEN Result(<<cmd>>, st, p)
        ELSE Result(<<cmd>>, 0,
               [p EXCEPT !.mac_addr =
                    [j \in 0..5 |-> rsp_params.mac_addr[5 - j]]])

dpsw_if_get_primary_mac_addr(a, p, st, r) ==
    LET cmd == Cmd(mc_encode_cmd_header("DPSW_CMDID_IF_SET_PRIMARY_MAC_ADDR",
                                        a.cmd_flags, a.token),
                   [if_id |-> cpu_to_le16(a.if_id)])
        rsp_params == r.params
    IN  IF st # 0 THEN Result(<<cmd>>, st, p)
        ELSE Result(<<cmd>>, 0,
               [p EXCEPT !.mac_addr =
                    [j \in 0..5 |-> rsp_params.mac_addr[5 - j]]])

dpsw_if_set_primary_mac_addr(a, p, st, r) ==
    LET cmd == Cmd(mc_encode_cmd_header("DPSW_CMDID_IF_SET_PRIMARY_MAC_ADDR",
                                        a.cmd_flags, a.token),
                   [if_id |-> cpu_to_le16(a.if_id),
                    mac_addr |-> [i \in 0..5 |-> a.mac_addr[5 - i]]])
    IN  Result(<<cmd>>, st, p)

\* the response decoded before the status is looked at
dpsw_acl_add_decodes_first(a, p, st, r) ==
    LET cmd == Cmd(mc_encode_cmd_header("DPSW_CMDID_ACL_ADD",
                                        a.cmd_flags, a.token),
                   [max_entries |-> cpu_to_le16(a.cfg.max_entries)])
    IN  Result(<<cmd>>, st, [p EXCEPT !.acl_id = le16_to_cpu(r.params.acl_id)])

dpsw_acl_add(a, p, st, r) ==
    LET cmd == Cmd(mc_encode_cmd_header("DPSW_CMDID_ACL_ADD",
                                        a.cmd_flags, a.token),
                   [max_entries |-> cpu_to_le16(a.cfg.max_entries)])
    IN  IF st # 0 THEN Result(<<cmd>>, st, p)
        ELSE Result(<<cmd>>, 0,
                    [p EXCEPT !.acl_id = le16_to_cpu(r.params.acl_id)])

dpsw_acl_remove(a, p, st, r) ==
    LET cmd == Cmd(mc_encode_cmd_header("DPSW_CMDID_ACL_REMOVE",
                                        a.cmd_flags, a.token),
                   [acl_id |-> cpu_to_le16(a.acl_id)])
    IN  Result(<<cmd>>, st, p)

\* the count sent capped at DPSW_MAX_IF
dpsw_acl_add_if_count_capped(a, p, st, r) ==
    LET cmd == Cmd(mc_encode_cmd_header("DPSW_CMDID_ACL_ADD_IF",
                                        a.cmd_flags, a.token),
                   [acl_id |-> cpu_to_le16(a.acl_id),
                    num_ifs |-> cpu_to_le16(build_if_id_bitmap_iters(a.cfg.num_ifs)),
                    if_id |-> build_if_id_bitmap(ZeroBitmap, a.cfg.if_id,
                                                 a.cfg.num_ifs)])
    IN  Result(<<cmd>>, st, p)

dpsw_acl_add_if(a, p, st, r) ==
    LET cmd == Cmd(mc_encode_cmd_header("DPSW_CMDID_ACL_ADD_IF",
                                        a.cmd_flags, a.token),
                   [acl_id |-> cpu_to_le16(a.acl_id),
                    num_ifs |-> cpu_to_le16(a.cfg.num_ifs),
                    if_id |-> build_if_id_bitmap(ZeroBitmap, a.cfg.if_id,
                                                 a.cfg.num_ifs)])
    IN  Result(<<cmd>>, st, p)

dpsw_acl_remove_if(a, p, st, r) ==
    LET cmd == Cmd(mc_encode_cmd_header("DPSW_CMDID_ACL_REMOVE_IF",
                                        a.cmd_flags, a.token),
                   [acl_id |-> cpu_to_le16(a.acl_id),
                    num_ifs |-> cpu_to_le16(a.cfg.num_ifs),
                    if_id |-> build_if_id_bitmap(ZeroBitmap, a.cfg.if_id,
                                                 a.cfg.num_ifs)])
    IN  Result(<<cmd>>, st, p)

\* the lookup table selection sent next to the action
dpsw_acl_add_entry_sends_lookup_table(a, p, st, r) ==
    LET cmd == Cmd(mc_encode_cmd_header("DPSW_CMDID_ACL_ADD_ENTRY",
                                        a.cmd_flags, a.token),
                   [acl_id |-> cpu_to_le16(a.acl_id),
                    result_if_id |-> cpu_to_le16(a.cfg.result.if_id),
                    precedence |-> cpu_to_le32(a.cfg.precedence),
                    key_iova |-> cpu_to_le64(a.cfg.key_iova),
                    result_action |-> U8(dpsw_set_field(0, DPSW_RESULT_ACTION,
                                                        a.cfg.result.action)),
                    lookup_table |-> U8(a.cfg.result.lookup_table)])
    IN  Result(<<cmd>>, st, p)

dpsw_acl_add_entry(a, p, st, r) ==
    LET cmd == Cmd(mc_encode_cmd_header("DPSW_CMDID_ACL_ADD_ENTRY",
                                        a.cmd_flags, a.token),
                   [acl_id |-> cpu_to_le16(a.acl_id),
                    result_if_id |-> cpu_to_le16(a.cfg.result.if_id),
                    precedence |-> cpu_to_le32(a.cfg.precedence),
                    key_iova |-> cpu_to_le64(a.cfg.key_iova),
                    result_action |-> U8(dpsw_set_field(0, DPSW_RESULT_ACTION,
                                                        a.cfg.result.action))])
    IN  Result(<<cmd>>, st, p)

\* the public operation called name, run on the given inputs
Run(name, a, p, st, r) ==
    CASE name = "dpsw_open" -> dpsw_open(a, p, st, r)
      [] name = "dpsw_close" -> dpsw_close(a, p, st, r)
      [] name = "dpsw_enable" -> dpsw_enable(a, p, st, r)
      [] name = "dpsw_disable" -> dpsw_disable(a, p, st, r)
      [] name = "dpsw_reset" -> dpsw_reset(a, p, st, r)
      [] name = "dpsw_set_irq_enable" -> dpsw_set_irq_enable(a, p, st, r)
      [] name = "dpsw_set_irq_mask" -> dpsw_set_irq_mask(a, p, st, r)
      [] name = "dpsw_get_irq_status" -> dpsw_get_irq_status(a, p, st, r)
      [] name = "dpsw_clear_irq_status" -> dpsw_clear_irq_status(a, p, st, r)
      [] name = "dpsw_get_attributes" -> dpsw_get_attributes(a, p, st, r)
      [] name = "dpsw_if_get_attributes" -> dpsw_if_get_attributes(a, p, st, r)
      [] name = "dpsw_if_set_link_cfg" -> dpsw_if_set_link_cfg(a, p, st, r)
      [] name = "dpsw_if_get_link_state" -> dpsw_if_get_link_state(a, p, st, r)
      [] name = "dpsw_if_set_flooding" -> dpsw_if_set_flooding(a, p, st, r)
      [] name = "dpsw_if_set_broadcast" -> dpsw_if_set_broadcast(a, p, st, r)
      [] name = "dpsw_if_set_tci" -> dpsw_if_set_tci(a, p, st, r)
      [] name = "dpsw_if_get_tci" -> dpsw_if_get_tci(a, p, st, r)
      [] name = "dpsw_if_set_stp" -> dpsw_if_set_stp(a, p, st, r)
      [] name = "dpsw_if_get_counter" -> dpsw_if_get_counter(a, p, st, r)
      [] name = "dpsw_if_enable" -> dpsw_if_enable(a, p, st, r)
      [] name = "dpsw_if_disable" -> dpsw_if_disable(a, p, st, r)
      [] name = "dpsw_if_set_max_frame_length" -> dpsw_if_set_max_frame_length(a, p, st, r)
      [] name = "dpsw_vlan_add" -> dpsw_vlan_add(a, p, st, r)
      [] name = "dpsw_vlan_add_if" -> dpsw_vlan_add_if(a, p, st, r)
      [] name = "dpsw_vlan_add_if_untagged" -> dpsw_vlan_add_if_untagged(a, p, st, r)
      [] name = "dpsw_vlan_remove_if" -> dpsw_vlan_remove_if(a, p, st, r)
      [] name = "dpsw_vlan_remove_if_untagged" -> dpsw_vlan_remove_if_untagged(a, p, st, r)
      [] name = "dpsw_vlan_remove" -> dpsw_vlan_remove(a, p, st, r)
      [] name = "dpsw_fdb_add_unicast" -> dpsw_fdb_add_unicast(a, p, st, r)
      [] name = "dpsw_fdb_dump" -> dpsw_fdb_dump(a, p, st, r)
      [] name = "dpsw_fdb_remove_unicast" -> dpsw_fdb_remove_unicast(a, p, st, r)
      [] name = "dpsw_fdb_add_multicast" -> dpsw_fdb_add_multicast(a, p, st, r)
      [] name = "dpsw_fdb_remove_multicast" -> dpsw_fdb_remove_multicast(a, p, st, r)
      [] name = "dpsw_fdb_set_learning_mode" -> dpsw_fdb_set_learning_mode(a, p, st, r)
      [] name = "dpsw_get_api_version" -> dpsw_get_api_version(a, p, st, r)
      [] name = "dpsw_if_get_port_mac_addr" -> dpsw_if_get_port_mac_addr(a, p, st, r)
      [] name = "dpsw_if_get_primary_mac_addr" -> dpsw_if_get_primary_mac_addr(a, p, st, r)
      [] name = "dpsw_if_set_primary_mac_addr" -> dpsw_if_set_primary_mac_addr(a, p, st, r)
      [] name = "dpsw_acl_add" -> dpsw_acl_add(a, p, st, r)
      [] name = "dpsw_acl_remove" -> dpsw_acl_remove(a, p, st, r)
      [] name = "dpsw_acl_add_if" -> dpsw_acl_add_if(a, p, st, r)
      [] name = "dpsw_acl_remove_if" -> dpsw_acl_remove_if(a, p, st, r)
      [] name = "dpsw_acl_add_entry" -> dpsw_acl_add_entry(a, p, st, r)

----------------------------------------------------------------------------
(* More values: interface lists, responses, pre-call output content *)

IdVals == {5, 64, 70}
\* u16 if_id[DPSW_MAX_IF] of the cfg structures: an explored prefix, then
\* entries naming the interfaces 8..11 in turn
IdArrays ==
    {[i \in 0..(DPSW_MAX_IF - 1) |-> IF i < MaxIds THEN q[i + 1] ELSE 8 + (i % 4)] :
        q \in [1..MaxIds -> IdVals]}
NumIfs == {0, 1, MaxIds, DPSW_MAX_IF + 1}
IfCfgs == {[num_ifs |-> n, if_id |-> l] : n \in NumIfs, l \in IdArrays}

\* conf / bit-field bytes a response may carry
ConfVals == {0, 1, 16, 32, 64, 85, 170, 255}

Rsp(token, params) == [header |-> [token |-> cpu_to_le16(token)], params |-> params]

RspAttr ==
    {Rsp(0, [num_ifs |-> cpu_to_le16(v + 1), max_fdbs |-> U8(v + 2),
             num_fdbs |-> U8(v + 3), max_vlans |-> cpu_to_le16(v + 4),
             num_vlans |-> cpu_to_le16(v + 5),
             max_fdb_entries |-> cpu_to_le16(v + 6),
             fdb_aging_time |-> cpu_to_le16(v + 7),
             dpsw_id |-> cpu_to_le32(v + 8), mem_size |-> cpu_to_le16(v + 9),
             max_fdb_mc_groups |-> cpu_to_le16(v + 10),
             max_meters_per_if |-> U8(v + 11),
             options |-> cpu_to_le64(v + 12), component_type |-> c]) :
        v \in {0, 4660}, c \in {0, 1, 241, 255}}
PreAttr ==
    {[num_ifs |-> v, max_fdbs |-> v, num_fdbs |-> v, max_vlans |-> v,
      num_vlans |-> v, max_fdb_entries |-> v, fdb_aging_time |-> v, id |-> v,
      mem_size |-> v, max_fdb_mc_groups |-> v, max_meters_per_if |-> v,
      options |-> v, component_type |-> v] : v \in {0, 77}}

RspIfAttr ==
    {Rsp(0, [conf |-> c, num_tcs |-> U8(v + 1), qdid |-> cpu_to_le16(v + 2),
             options |-> cpu_to_le32(v + 3), rate |-> cpu_to_le32(v + 4)]) :
        v \in {0, 4660}, c \in ConfVals}
PreIfAttr ==
    {[num_tcs |-> v, rate |-> v, options |-> v, enabled |-> v,
      accept_all_vlan |-> v, admit_untagged |-> v, qdid |-> v] : v \in {0, 77}}

RspLinkState ==
    {Rsp(0, [up |-> c, rate |-> cpu_to_le32(v + 1),
             options |-> cpu_to_le64(v + 2)]) :
        v \in {0, 4660}, c \in ConfVals}
PreLinkState == {[rate |-> v, options |-> v, up |-> v] : v \in {0, 77}}

RspTci ==
    {Rsp(0, [vlan_id |-> cpu_to_le16(v), dei |-> d, pcp |-> q]) :
        v \in {0, 2748, 65535}, d \in {0, 1, 255}, q \in {0, 7, 255}}
PreTci == {[pcp |-> v, dei |-> v, vlan_id |-> v] : v \in {0, 77}}

RspMac == {Rsp(0, [mac_addr |-> m]) : m \in MacAddrs}
PreMac == {[mac_addr |-> m] : m \in {[i \in 0..5 |-> 0], [i \in 0..5 |-> 170 + i]}}

TciCfgs ==
    {[pcp |-> q, dei |-> d, vlan_id |-> v] :
        q \in {0, 5, 7, 8, 255}, d \in {0, 1, 2, 255},
        v \in {0, 1, 2748, 4095, 4096, 65535}}

----------------------------------------------------------------------------
(* The caller: one call at a time, each running its operation to the end *)

\* what the storage of the automatic variable cmd may hold when a function
\* is entered: a command or a response an earlier call left on the stack
StaleStorage ==
    {dpsw_acl_add_entry([cmd_flags |-> 0, token |-> 65535, acl_id |-> 65535,
                         cfg |-> [key_iova |-> 305419896, precedence |-> 9,
                                  result |-> [action |-> 15, if_id |-> 65535,
                                              lookup_table |-> 0]]],
                        NoOut, 0, NoRsp).sent[1],
     Rsp(65535, [vlan_id |-> cpu_to_le16(65535), dei |-> 255, pcp |-> 255])}

\* the storage left as it was found
cmd_zero_init_skipped(storage) == storage

\* struct fsl_mc_command cmd = { 0 }: the header and every payload byte are
\* zero whatever the storage held
cmd_zero_init(storage) == [header |-> <<>>, params |-> <<>>]

\* cmd.header assigned and the payload fields of cmd_params written in the
\* buffer; the rest of the buffer stays as it was
cmd_written(buf, cmd) ==
    [header |-> cmd.header,
     params |-> IF DOMAIN buf.params = {} THEN cmd.params
                ELSE cmd.params @@ buf.params]

Issue(name, a, p, st, r, res) ==
    /\ pc' = "returned"
    /\ op' = name
    /\ args' = a
    /\ pre' = p
    /\ err' = st
    /\ rsp' = r
    /\ \E storage \in StaleStorage :
          sent' = [i \in DOMAIN res.sent |->
                      cmd_written(cmd_zero_init(storage), res.sent[i])]
    /\ ret' = res.ret
    /\ out' = res.out

Call(name, a, p, st, r, res) ==
    /\ Issue(name, a, p, st, r, res)
    /\ UNCHANGED <<macVars, bmVars, extVars>>

\* arguments common to the operations that take a token
Tok(c) == [cmd_flags |-> c[1], token |-> c[2]]

Call_dpsw_open ==
    /\ pc = "idle"
    /\ \E f \in CmdFlags, id \in {0, 3}, p \in {[token |-> t] : t \in {0, 77}},
       st \in Status, r \in {Rsp(t, <<>>) : t \in Tokens \cup {4660}} :
        LET a == [cmd_flags |-> f, dpsw_id |-> id]
        IN  Call("dpsw_open", a, p, st, r, dpsw_open(a, p, st, r))

Call_dpsw_close ==
    /\ pc = "idle"
    /\ \E c \in Ctx, st \in Status :
        Call("dpsw_close", Tok(c), NoOut, st, NoRsp,
             dpsw_close(Tok(c), NoOut, st, NoRsp))

Call_dpsw_enable ==
    /\ pc = "idle"
    /\ \E c \in Ctx, st \in Status :
        Call("dpsw_enable", Tok(c), NoOut, st, NoRsp,
             dpsw_enable(Tok(c), NoOut, st, NoRsp))

Call_dpsw_disable ==
    /\ pc = "idle"
    /\ \E c \in Ctx, st \in Status :
        Call("dpsw_disable", Tok(c), NoOut, st, NoRsp,
             dpsw_disable(Tok(c), NoOut, st, NoRsp))

Call_dpsw_reset ==
    /\ pc = "idle"
    /\ \E c \in Ctx, st \in Status :
        Call("dpsw_reset", Tok(c), NoOut, st, NoRsp,
             dpsw_reset(Tok(c), NoOut, st, NoRsp))

Call_dpsw_set_irq_enable ==
    /\ pc = "idle"
    /\ \E c \in Ctx, st \in Status, x \in {0, 1}, en \in BoolVals :
        LET a == Tok(c) @@ [irq_index |-> x, en |-> en]
        IN  Call("dpsw_set_irq_enable", a, NoOut, st, NoRsp,
                 dpsw_set_irq_enable(a, NoOut, st, NoRsp))

Call_dpsw_set_irq_mask ==
    /\ pc = "idle"
    /\ \E c \in Ctx, st \in Status, x \in {0, 1}, m \in U32Vals :
        LET a == Tok(c) @@ [irq_index |-> x, mask |-> m]
        IN  Call("dpsw_set_irq_mask", a, NoOut, st, NoRsp,
                 dpsw_set_irq_mask(a, NoOut, st, NoRsp))

Call_dpsw_get_irq_status ==
    /\ pc = "idle"
    /\ \E c \in Ctx, st \in Status, x \in {0, 1},
       p \in {[status |-> v] : v \in {0, 77}},
       r \in {Rsp(0, [status |-> cpu_to_le32(v)]) : v \in U32Vals \cup {1}} :
        LET a == Tok(c) @@ [irq_index |-> x]
        IN  Call("dpsw_get_irq_status", a, p, st, r,
                 dpsw_get_irq_status(a, p, st, r))

Call_dpsw_clear_irq_status ==
    /\ pc = "idle"
    /\ \E c \in Ctx, st \in Status, x \in {0, 1}, v \in U32Vals :
        LET a == Tok(c) @@ [irq_index |-> x, status |-> v]
        IN  Call("dpsw_clear_irq_status", a, NoOut, st, NoRsp,
                 dpsw_clear_irq_status(a, NoOut, st, NoRsp))

Call_dpsw_get_attributes ==
    /\ pc = "idle"
    /\ \E c \in CtxLite, st \in Status, p \in PreAttr, r \in RspAttr :
        Call("dpsw_get_attributes", Tok(c), p, st, r,
             dpsw_get_attributes(Tok(c), p, st, r))

Call_dpsw_if_get_attributes ==
    /\ pc = "idle"
    /\ \E c \in CtxLite, st \in Status, i \in {0, 4660}, p \in PreIfAttr,
       r \in RspIfAttr :
        LET a == Tok(c) @@ [if_id |-> i]
        IN  Call("dpsw_if_get_attributes", a, p, st, r,
                 dpsw_if_get_attributes(a, p, st, r))

Call_dpsw_if_set_link_cfg ==
    /\ pc = "idle"
    /\ \E c \in Ctx, st \in Status, i \in {0, 4660}, v \in U32Vals,
          o \in {0, 15, 305419896} :
        LET a == Tok(c) @@ [if_id |-> i, cfg |-> [rate |-> v, options |-> o]]
        IN  Call("dpsw_if_set_link_cfg", a, NoOut, st, NoRsp,
                 dpsw_if_set_link_cfg(a, NoOut, st, NoRsp))

Call_dpsw_if_get_link_state ==
    /\ pc = "idle"
    /\ \E c \in CtxLite, st \in Status, i \in {0, 4660}, p \in PreLinkState,
       r \in RspLinkState :
        LET a == Tok(c) @@ [if_id |-> i]
        IN  Call("dpsw_if_get_link_state", a, p, st, r,
                 dpsw_if_get_link_state(a, p, st, r))

Call_dpsw_if_set_flooding ==
    /\ pc = "idle"
    /\ \E c \in Ctx, st \in Status, i \in {0, 4660}, en \in BoolVals :
        LET a == Tok(c) @@ [if_id |-> i, en |-> en]
        IN  Call("dpsw_if_set_flooding", a, NoOut, st, NoRsp,
                 dpsw_if_set_flooding(a, NoOut, st, NoRsp))

Call_dpsw_if_set_broadcast ==
    /\ pc = "idle"
    /\ \E c \in Ctx, st \in Status, i \in {0, 4660}, en \in BoolVals :
        LET a == Tok(c) @@ [if_id |-> i, en |-> en]
        IN  Call("dpsw_if_set_broadcast", a, NoOut, st, NoRsp,
                 dpsw_if_set_broadcast(a, NoOut, st, NoRsp))

Call_dpsw_if_set_tci ==
    /\ pc = "idle"
    /\ \E c \in CtxLite, st \in Status, i \in {4660}, cfg \in TciCfgs :
        LET a == Tok(c) @@ [if_id |-> i, cfg |-> cfg]
        IN  Call("dpsw_if_set_tci", a, NoOut, st, NoRsp,
                 dpsw_if_set_tci(a, NoOut, st, NoRsp))

Call_dpsw_if_get_tci ==
    /\ pc = "idle"
    /\ \E c \in CtxLite, st \in Status, i \in {0, 4660}, p \in PreTci, r \in RspTci :
        LET a == Tok(c) @@ [if_id |-> i]
        IN  Call("dpsw_if_get_tci", a, p, st, r, dpsw_if_get_tci(a, p, st, r))

Call_dpsw_if_set_stp ==
    /\ pc = "idle"
    /\ \E c \in CtxLite, st \in Status, i \in {0, 4660}, v \in U16Vals,
       s \in {0, 1, 3, 16, 255} :
        LET a == Tok(c) @@ [if_id |-> i, cfg |-> [vlan_id |-> v, state |-> s]]
        IN  Call("dpsw_if_set_stp", a, NoOut, st, NoRsp,
                 dpsw_if_set_stp(a, NoOut, st, NoRsp))

Call_dpsw_if_get_counter ==
    /\ pc = "idle"
    /\ \E c \in CtxLite, st \in Status, i \in {0, 4660}, t \in {0, 12, 31, 32},
       p \in {[counter |-> v] : v \in {0, 77}},
       r \in {Rsp(0, [counter |-> cpu_to_le64(v)]) : v \in U32Vals \cup {1}} :
        LET a == Tok(c) @@ [if_id |-> i, type |-> t]
        IN  Call("dpsw_if_get_counter", a, p, st, r,
                 dpsw_if_get_counter(a, p, st, r))

Call_dpsw_if_enable ==
    /\ pc = "idle"
    /\ \E c \in Ctx, st \in Status, i \in U16Vals :
        LET a == Tok(c) @@ [if_id |-> i]
        IN  Call("dpsw_if_enable", a, NoOut, st, NoRsp,
                 dpsw_if_enable(a, NoOut, st, NoRsp))

Call_dpsw_if_disable ==
    /\ pc = "idle"
    /\ \E c \in Ctx, st \in Status, i \in U16Vals :
        LET a == Tok(c) @@ [if_id |-> i]
        IN  Call("dpsw_if_disable", a, NoOut, st, NoRsp,
                 dpsw_if_disable(a, NoOut, st, NoRsp))

Call_dpsw_if_set_max_frame_length ==
    /\ pc = "idle"
    /\ \E c \in Ctx, st \in Status, i \in {0, 4660}, l \in U16Vals :
        LET a == Tok(c) @@ [if_id |-> i, frame_length |-> l]
        IN  Call("dpsw_if_set_max_frame_length", a, NoOut, st, NoRsp,
                 dpsw_if_set_max_frame_length(a, NoOut, st, NoRsp))

Call_dpsw_vlan_add ==
    /\ pc = "idle"
    /\ \E c \in Ctx, st \in Status, v \in {0, 1, 4095, 4096, 65535}, f \in {0, 4660} :
        LET a == Tok(c) @@ [vlan_id |-> v, cfg |-> [fdb_id |-> f]]
        IN  Call("dpsw_vlan_add", a, NoOut, st, NoRsp,
                 dpsw_vlan_add(a, NoOut, st, NoRsp))

Call_dpsw_vlan_add_if ==
    /\ pc = "idle"
    /\ \E c \in CtxLite, st \in Status, v \in {4095}, cfg \in IfCfgs :
        LET a == Tok(c) @@ [vlan_id |-> v, cfg |-> cfg]
        IN  Call("dpsw_vlan_add_if", a, NoOut, st, NoRsp,
                 dpsw_vlan_add_if(a, NoOut, st, NoRsp))

Call_dpsw_vlan_add_if_untagged ==
    /\ pc = "idle"
    /\ \E c \in CtxLite, st \in Status, v \in {4095}, cfg \in IfCfgs :
        LET a == Tok(c) @@ [vlan_id |-> v, cfg |-> cfg]
        IN  Call("dpsw_vlan_add_if_untagged", a, NoOut, st, NoRsp,
                 dpsw_vlan_add_if_untagged(a, NoOut, st, NoRsp))

Call_dpsw_vlan_remove_if ==
    /\ pc = "idle"
    /\ \E c \in CtxLite, st \in Status, v \in {4095}, cfg \in IfCfgs :
        LET a == Tok(c) @@ [vlan_id |-> v, cfg |-> cfg]
        IN  Call("dpsw_vlan_remove_if", a, NoOut, st, NoRsp,
                 dpsw_vlan_remove_if(a, NoOut, st, NoRsp))

Call_dpsw_vlan_remove_if_untagged ==
    /\ pc = "idle"
    /\ \E c \in CtxLite, st \in Status, v \in {4095}, cfg \in IfCfgs :
        LET a == Tok(c) @@ [vlan_id |-> v, cfg |-> cfg]
        IN  Call("dpsw_vlan_remove_if_untagged", a, NoOut, st, NoRsp,
                 dpsw_vlan_remove_if_untagged(a, NoOut, st, NoRsp))

Call_dpsw_vlan_remove ==
    /\ pc = "idle"
    /\ \E c \in Ctx, st \in Status, v \in {0, 1, 4095, 4096, 65535} :
        LET a == Tok(c) @@ [vlan_id |-> v]
        IN  Call("dpsw_vlan_remove", a, NoOut, st, NoRsp,
                 dpsw_vlan_remove(a, NoOut, st, NoRsp))

FdbUnicastCfgs ==
    {[type |-> t, mac_addr |-> m, if_egress |-> e] :
        t \in {0, 1, 17}, m \in MacAddrs, e \in {4660}}
FdbMulticastCfgs ==
    {[type |-> t, mac_addr |-> m, num_ifs |-> c.num_ifs, if_id |-> c.if_id] :
        t \in {17}, m \in PatternMacs, c \in IfCfgs}

Call_dpsw_fdb_add_unicast ==
    /\ pc = "idle"
    /\ \E c \in CtxLite, st \in Status, f \in {4660}, cfg \in FdbUnicastCfgs :
        LET a == Tok(c) @@ [fdb_id |-> f, cfg |-> cfg]
        IN  Call("dpsw_fdb_add_unicast", a, NoOut, st, NoRsp,
                 dpsw_fdb_add_unicast(a, NoOut, st, NoRsp))

Call_dpsw_fdb_dump ==
    /\ pc = "idle"
    /\ \E c \in CtxLite, st \in Status, f \in {0, 4660}, io \in U32Vals,
       sz \in {0, 256}, p \in {[num_entries |-> v] : v \in {0, 77}},
       r \in {Rsp(0, [num_entries |-> cpu_to_le16(v)]) : v \in U16Vals} :
        LET a == Tok(c) @@ [fdb_id |-> f, iova_addr |-> io, iova_size |-> sz]
        IN  Call("dpsw_fdb_dump", a, p, st, r, dpsw_fdb_dump(a, p, st, r))

Call_dpsw_fdb_remove_unicast ==
    /\ pc = "idle"
    /\ \E c \in CtxLite, st \in Status, f \in {4660}, cfg \in FdbUnicastCfgs :
        LET a == Tok(c) @@ [fdb_id |-> f, cfg |-> cfg]
        IN  Call("dpsw_fdb_remove_unicast", a, NoOut, st, NoRsp,
                 dpsw_fdb_remove_unicast(a, NoOut, st, NoRsp))

Call_dpsw_fdb_add_multicast ==
    /\ pc = "idle"
    /\ \E c \in CtxLite, st \in Status, f \in {4660}, cfg \in FdbMulticastCfgs :
        LET a == Tok(c) @@ [fdb_id |-> f, cfg |-> cfg]
        IN  Call("dpsw_fdb_add_multicast", a, NoOut, st, NoRsp,
                 dpsw_fdb_add_multicast(a, NoOut, st, NoRsp))

Call_dpsw_fdb_remove_multicast ==
    /\ pc = "idle"
    /\ \E c \in CtxLite, st \in Status, f \in {4660}, cfg \in FdbMulticastCfgs :
        LET a == Tok(c) @@ [fdb_id |-> f, cfg |-> cfg]
        IN  Call("dpsw_fdb_remove_multicast", a, NoOut, st, NoRsp,
                 dpsw_fdb_remove_multicast(a, NoOut, st, NoRsp))

Call_dpsw_fdb_set_learning_mode ==
    /\ pc = "idle"
    /\ \E c \in Ctx, st \in Status, f \in {0, 4660}, m \in {0, 1, 3, 16, 255} :
        LET a == Tok(c) @@ [fdb_id |-> f, mode |-> m]
        IN  Call("dpsw_fdb_set_learning_mode", a, NoOut, st, NoRsp,
                 dpsw_fdb_set_learning_mode(a, NoOut, st, NoRsp))

Call_dpsw_get_api_version ==
    /\ pc = "idle"
    /\ \E f \in CmdFlags, st \in Status,
       p \in {[major_ver |-> v, minor_ver |-> v] : v \in {0, 77}},
       r \in {Rsp(0, [version_major |-> cpu_to_le16(x),
                      version_minor |-> cpu_to_le16(y)]) :
                 x \in {8, 65535}, y \in {0, 1, 4660}} :
        LET a == [cmd_flags |-> f]
        IN  Call("dpsw_get_api_version", a, p, st, r,
                 dpsw_get_api_version(a, p, st, r))

Call_dpsw_if_get_port_mac_addr ==
    /\ pc = "idle"
    /\ \E c \in CtxLite, st \in Status, i \in {0, 4660}, p \in PreMac, r \in RspMac :
        LET a == Tok(c) @@ [if_id |-> i]
        IN  Call("dpsw_if_get_port_mac_addr", a, p, st, r,
                 dpsw_if_get_port_mac_addr(a, p, st, r))

Call_dpsw_if_get_primary_mac_addr ==
    /\ pc = "idle"
    /\ \E c \in CtxLite, st \in Status, i \in {0, 4660}, p \in PreMac, r \in RspMac :
        LET a == Tok(c) @@ [if_id |-> i]
        IN  Call("dpsw_if_get_primary_mac_addr", a, p, st, r,
                 dpsw_if_get_primary_mac_addr(a, p, st, r))

Call_dpsw_if_set_primary_mac_addr ==
    /\ pc = "idle"
    /\ \E c \in Ctx, st \in Status, i \in {0, 4660}, m \in MacAddrs :
        LET a == Tok(c) @@ [if_id |-> i, mac_addr |-> m]
        IN  Call("dpsw_if_set_primary_mac_addr", a, NoOut, st, NoRsp,
                 dpsw_if_set_primary_mac_addr(a, NoOut, st, NoRsp))

Call_dpsw_acl_add ==
    /\ pc = "idle"
    /\ \E c \in Ctx, st \in Status, m \in U16Vals,
       p \in {[acl_id |-> v] : v \in {0, 77}},
       r \in {Rsp(0, [acl_id |-> cpu_to_le16(v)]) : v \in U16Vals} :
        LET a == Tok(c) @@ [cfg |-> [max_entries |-> m]]
        IN  Call("dpsw_acl_add", a, p, st, r, dpsw_acl_add(a, p, st, r))

Call_dpsw_acl_remove ==
    /\ pc = "idle"
    /\ \E c \in Ctx, st \in Status, i \in U16Vals :
        LET a == Tok(c) @@ [acl_id |-> i]
        IN  Call("dpsw_acl_remove", a, NoOut, st, NoRsp,
                 dpsw_acl_remove(a, NoOut, st, NoRsp))

Call_dpsw_acl_add_if ==
    /\ pc = "idle"
    /\ \E c \in CtxLite, st \in Status, i \in {4660}, cfg \in IfCfgs :
        LET a == Tok(c) @@ [acl_id |-> i, cfg |-> cfg]
        IN  Call("dpsw_acl_add_if", a, NoOut, st, NoRsp,
                 dpsw_acl_add_if(a, NoOut, st, NoRsp))

Call_dpsw_acl_remove_if ==
    /\ pc = "idle"
    /\ \E c \in CtxLite, st \in Status, i \in {4660}, cfg \in IfCfgs :
        LET a == Tok(c) @@ [acl_id |-> i, cfg |-> cfg]
        IN  Call("dpsw_acl_remove_if", a, NoOut, st, NoRsp,
                 dpsw_acl_remove_if(a, NoOut, st, NoRsp))

AclEntryCfgs ==
    {[key_iova |-> k, precedence |-> q,
      result |-> [action |-> x, if_id |-> i, lookup_table |-> l]] :
        k \in U32Vals, q \in {0, 9}, x \in {0, 4, 16}, i \in {0, 4660},
        l \in {0, 2}}

Call_dpsw_acl_add_entry ==
    /\ pc = "idle"
    /\ \E c \in CtxLite, st \in Status, i \in {4660}, cfg \in AclEntryCfgs :
        LET a == Tok(c) @@ [acl_id |-> i, cfg |-> cfg]
        IN  Call("dpsw_acl_add_entry", a, NoOut, st, NoRsp,
                 dpsw_acl_add_entry(a, NoOut, st, NoRsp))

\* the caller takes the result and is ready for its next call
Return ==
    /\ pc = "returned"
    /\ pc' = "idle"
    /\ op' = "none"
    /\ args' = <<>>
    /\ pre' = NoOut
    /\ sent' = <<>>
    /\ err' = 0
    /\ rsp' = NoRsp
    /\ ret' = 0
    /\ out' = NoOut
    /\ UNCHANGED <<macVars, bmVars, extVars>>

InitCall ==
    /\ pc = "idle"
    /\ op = "none"
    /\ args = <<>>
    /\ pre = NoOut
    /\ sent = <<>>
    /\ err = 0
    /\ rsp = NoRsp
    /\ ret = 0
    /\ out = NoOut

InitMacOff ==
    /\ mac_pc = "off"
    /\ mac_host = <<>>
    /\ mac_wire = <<>>
    /\ mac_back = <<>>

InitBmOff ==
    /\ bm_pc = "off"
    /\ bm_in = <<>>
    /\ bm_id = <<>>
    /\ bm_num = 0
    /\ bm_out = <<>>

InitSessOff ==
    /\ sess_open = {}
    /\ sess_closed = {}
    /\ stale = FALSE

InitKeyOff ==
    /\ key_pc = "off"
    /\ key_in = <<>>
    /\ key_prior = <<>>
    /\ key_buf = <<>>

InitThOff ==
    /\ th_pc = <<>>
    /\ th_op = <<>>
    /\ th_args = <<>>
    /\ th_pre = <<>>
    /\ th_err = <<>>
    /\ th_rsp = <<>>
    /\ th_sent = <<>>
    /\ th_ret = <<>>
    /\ th_out = <<>>
    /\ th_buf = <<>>

InitExtOff == InitSessOff /\ InitKeyOff /\ InitThOff

Init == InitCall /\ InitMacOff /\ InitBmOff /\ InitExtOff

Next ==
    \/ Call_dpsw_open
    \/ Call_dpsw_close
    \/ Call_dpsw_enable
    \/ Call_dpsw_disable
    \/ Call_dpsw_reset
    \/ Call_dpsw_set_irq_enable
    \/ Call_dpsw_set_irq_mask
    \/ Call_dpsw_get_irq_status
    \/ Call_dpsw_clear_irq_status
    \/ Call_dpsw_get_attributes
    \/ Call_dpsw_if_get_attributes
    \/ Call_dpsw_if_set_link_cfg
    \/ Call_dpsw_if_get_link_state
    \/ Call_dpsw_if_set_flooding
    \/ Call_dpsw_if_set_broadcast
    \/ Call_dpsw_if_set_tci
    \/ Call_dpsw_if_get_tci
    \/ Call_dpsw_if_set_stp
    \/ Call_dpsw_if_get_counter
    \/ Call_dpsw_if_enable
    \/ Call_dpsw_if_disable
    \/ Call_dpsw_if_set_max_frame_length
    \/ Call_dpsw_vlan_add
    \/ Call_dpsw_vlan_add_if
    \/ Call_dpsw_vlan_add_if_untagged
    \/ Call_dpsw_vlan_remove_if
    \/ Call_dpsw_vlan_remove_if_untagged
    \/ Call_dpsw_vlan_remove
    \/ Call_dpsw_fdb_add_unicast
    \/ Call_dpsw_fdb_dump
    \/ Call_dpsw_fdb_remove_unicast
    \/ Call_dpsw_fdb_add_multicast
    \/ Call_dpsw_fdb_remove_multicast
    \/ Call_dpsw_fdb_set_learning_mode
    \/ Call_dpsw_get_api_version
    \/ Call_dpsw_if_get_port_mac_addr
    \/ Call_dpsw_if_get_primary_mac_addr
    \/ Call_dpsw_if_set_primary_mac_addr
    \/ Call_dpsw_acl_add
    \/ Call_dpsw_acl_remove
    \/ Call_dpsw_acl_add_if
    \/ Call_dpsw_acl_remove_if
    \/ Call_dpsw_acl_add_entry
    \/ Return

Spec == Init /\ [][Next]_vars

----------------------------------------------------------------------------
(* The hardware address codec run alone: an address is encoded by a        *)
(* command builder and the wire bytes are handed back as a response        *)

MacHostAddrs == [0..5 -> {0, 255} \cup 1..MaxMacByte]

MacArgs == [cmd_flags |-> 0, token |-> 1, if_id |-> 0]
MacPre == [mac_addr |-> [i \in 0..5 |-> 0]]

MacEncodePrimary ==
    /\ mac_pc = "host"
    /\ LET a == MacArgs @@ [mac_addr |-> mac_host]
           res == dpsw_if_set_primary_mac_addr(a, NoOut, 0, NoRsp)
       IN  mac_wire' = res.sent[1].params.mac_addr
    /\ mac_pc' = "wire"
    /\ UNCHANGED <<mac_host, mac_back, callVars, bmVars, extVars>>

MacEncodeFdb ==
    /\ mac_pc = "host"
    /\ LET a == MacArgs @@ [fdb_id |-> 0,
                            cfg |-> [type |-> 0, if_egress |-> 0,
                                     mac_addr |-> mac_host]]
           res == dpsw_fdb_add_unicast(a, NoOut, 0, NoRsp)
       IN  mac_wire' = res.sent[1].params.mac_addr
    /\ mac_pc' = "wire"
    /\ UNCHANGED <<mac_host, mac_back, callVars, bmVars, extVars>>

MacDecodePort ==
    /\ mac_pc = "wire"
    /\ LET res == dpsw_if_get_port_mac_addr(MacArgs, MacPre, 0,
                                            Rsp(0, [mac_addr |-> mac_wire]))
       IN  mac_back' = res.out.mac_addr
    /\ mac_pc' = "port"
    /\ UNCHANGED <<mac_host, mac_wire, callVars, bmVars, extVars>>

MacDecodePrimary ==
    /\ mac_pc = "wire"
    /\ LET res == dpsw_if_get_primary_mac_addr(MacArgs, MacPre, 0,
                                               Rsp(0, [mac_addr |-> mac_wire]))
       IN  mac_back' = res.out.mac_addr
    /\ mac_pc' = "primary"
    /\ UNCHANGED <<mac_host, mac_wire, callVars, bmVars, extVars>>

InitMac ==
    /\ InitCall
    /\ InitBmOff
    /\ InitExtOff
    /\ mac_pc = "host"
    /\ mac_host \in MacHostAddrs
    /\ mac_wire = <<>>
    /\ mac_back = <<>>

NextMac ==
    \/ MacEncodePrimary
    \/ MacEncodeFdb
    \/ MacDecodePort
    \/ MacDecodePrimary

SpecMac == InitMac /\ [][NextMac]_vars

----------------------------------------------------------------------------
(* The bitmap builder run alone on an id list, a count and a destination   *)

BmIdVals == {5, 63, 64, 70}
\* an id list longer than DPSW_MAX_IF: an explored prefix, then entries
\* naming the interfaces 8..11 in turn up to position DPSW_MAX_IF - 1, then
\* entries naming the interfaces 20, 21, ...
BmIdArrays ==
    {[i \in 0..(DPSW_MAX_IF + ExtraIds - 1) |->
        IF i < MaxBmIds THEN q[i + 1]
        ELSE IF i < DPSW_MAX_IF THEN 8 + (i % 4)
        ELSE 20 + (i - DPSW_MAX_IF)] : q \in [1..MaxBmIds -> BmIdVals]}
BmCounts ==
    0..MaxBmIds \cup {DPSW_MAX_IF - 1, DPSW_MAX_IF, DPSW_MAX_IF + ExtraIds}
\* a zeroed destination, and one that already holds bits
BmPriors ==
    {ZeroBitmap,
     [w \in 0..1 |-> IF w = 0 THEN le64_or(le64_bit(5), le64_bit(40))
                     ELSE le64_bit(1)]}

BmBuild ==
    /\ bm_pc = "ready"
    /\ bm_out' = build_if_id_bitmap(bm_in, bm_id, bm_num)
    /\ bm_pc' = "built"
    /\ UNCHANGED <<bm_in, bm_id, bm_num, callVars, macVars, extVars>>

InitBitmap ==
    /\ InitCall
    /\ InitMacOff
    /\ InitExtOff
    /\ bm_pc = "ready"
    /\ bm_in \in BmPriors
    /\ bm_id \in BmIdArrays
    /\ bm_num \in BmCounts
    /\ bm_out = <<>>

SpecBitmap == InitBitmap /\ [][BmBuild]_vars

----------------------------------------------------------------------------
(* Control sessions as the caller sees them.  The layer keeps no record of *)
(* sessions: dpsw_open hands the caller the token found in the response    *)
(* header and dpsw_close submits a command like any other.  sess_open is   *)
(* the set of tokens the caller holds open, sess_closed the tokens it has  *)
(* closed and not been granted again, stale tells whether the call in      *)
(* progress was issued with a closed token.                                *)

\* tokens found in the responses to dpsw_open
SessTokens == 1..(MaxToken + 1)

\* a call on a session, other than open and close
SessCall(name, a, p, r) ==
    \E st \in Status :
        /\ Issue(name, a, p, st, r, Run(name, a, p, st, r))
        /\ stale' = (a.token \in sess_closed)
        /\ UNCHANGED <<sess_open, sess_closed, macVars, bmVars, keyVars, thVars>>

\* dpsw_open: on success the caller holds the token of the response
SessOpen ==
    /\ pc = "idle"
    /\ \E id \in {0, 3}, p \in {[token |-> 77]}, st \in Status,
          r \in {Rsp(t, <<>>) : t \in SessTokens} :
        LET a   == [cmd_flags |-> 0, dpsw_id |-> id]
            res == dpsw_open(a, p, st, r)
        IN  /\ Issue("dpsw_open", a, p, st, r, res)
            /\ IF res.ret = 0
               THEN /\ sess_open' = sess_open \cup {res.out.token}
                    /\ sess_closed' = sess_closed \ {res.out.token}
               ELSE UNCHANGED <<sess_open, sess_closed>>
    /\ stale' = FALSE
    /\ UNCHANGED <<macVars, bmVars, keyVars, thVars>>

\* dpsw_close: on success the caller's token is closed
SessClose ==
    /\ pc = "idle"
    /\ \E t \in Tokens \cup SessTokens, st \in Status :
        LET a   == [cmd_flags |-> 0, token |-> t]
            res == dpsw_close(a, NoOut, st, NoRsp)
        IN  /\ Issue("dpsw_close", a, NoOut, st, NoRsp, res)
            /\ stale' = (t \in sess_closed)
            /\ IF res.ret = 0
               THEN /\ sess_open' = sess_open \ {t}
                    /\ sess_closed' = sess_closed \cup {t}
               ELSE UNCHANGED <<sess_open, sess_closed>>
    /\ UNCHANGED <<macVars, bmVars, keyVars, thVars>>

SessEnable ==
    /\ pc = "idle"
    /\ \E t \in Tokens \cup SessTokens :
        SessCall("dpsw_enable", [cmd_flags |-> 0, token |-> t], NoOut, NoRsp)

SessVlanAdd ==
    /\ pc = "idle"
    /\ \E t \in Tokens \cup SessTokens, v \in {1, 4095} :
        SessCall("dpsw_vlan_add",
                 [cmd_flags |-> 0, token |-> t, vlan_id |-> v, cfg |-> [fdb_id |-> 0]],
                 NoOut, NoRsp)

SessIfGetTci ==
    /\ pc = "idle"
    /\ \E t \in Tokens \cup SessTokens, p \in PreTci, r \in RspTci :
        SessCall("dpsw_if_get_tci", [cmd_flags |-> 0, token |-> t, if_id |-> 0], p, r)

InitSession == InitCall /\ InitMacOff /\ InitBmOff /\ InitExtOff

NextSession ==
    \/ SessOpen
    \/ SessClose
    \/ SessEnable
    \/ SessVlanAdd
    \/ SessIfGetTci
    \/ Return

SpecSession == InitSession /\ [][NextSession]_vars

----------------------------------------------------------------------------
(* ACL key codec.  dpsw_acl_prepare_entry_cfg lays a key out in the        *)
(* caller's buffer, which a later dpsw_acl_add_entry names by its I/O      *)
(* address.  The buffer is an array of bytes indexed from 0.               *)

\* size of the buffer the caller hands to dpsw_acl_prepare_entry_cfg
entry_cfg_buf_size == 256

\* struct dpsw_prep_acl_entry: byte offset of every member
dpsw_prep_acl_entry ==
    [match_l2_dest_mac |-> 0, match_l2_tpid |-> 6,
     match_l2_source_mac |-> 8, match_l2_vlan_id |-> 14,
     match_l3_dest_ip |-> 16, match_l3_source_ip |-> 20,
     match_l4_dest_port |-> 24, match_l4_source_port |-> 26,
     match_l2_ether_type |-> 28, match_l2_pcp_dei |-> 30, match_l3_dscp |-> 31,
     mask_l2_dest_mac |-> 32, mask_l2_tpid |-> 38,
     mask_l2_source_mac |-> 40, mask_l2_vlan_id |-> 46,
     mask_l3_dest_ip |-> 48, mask_l3_source_ip |-> 52,
     mask_l4_dest_port |-> 56, mask_l4_source_port |-> 58,
     mask_l2_ether_type |-> 60, mask_l2_pcp_dei |-> 62, mask_l3_dscp |-> 63,
     match_l3_protocol |-> 64, mask_l3_protocol |-> 65,
     match_frame_flags |-> 66, mask_frame_flags |-> 67]

\* the bytes of a u8 member
u8_bytes(v) == [k \in 0..0 |-> U8(v)]

\* the copy loop of a hardware address: ext[i] = key[5 - i]
acl_mac_bytes_unreversed(m) == [i \in 0..5 |-> m[i]]

acl_mac_bytes(m) == [i \in 0..5 |-> m[5 - i]]

\* every member stored at the start of the buffer
acl_assign_at_start(buf, member, bytes) ==
    [i \in DOMAIN buf |->
        IF i < Cardinality(DOMAIN bytes) THEN bytes[i] ELSE buf[i]]

\* ext_params->member = bytes
acl_assign(buf, member, bytes) ==
    LET off == dpsw_prep_acl_entry[member]
        n   == Cardinality(DOMAIN bytes)
    IN  [i \in DOMAIN buf |->
            IF off <= i /\ i < off + n THEN bytes[i - off] ELSE buf[i]]

\* the assignments of dpsw_acl_prepare_entry_cfg, in the order of the source
acl_assignments(key) ==
    << <<"match_l2_dest_mac", acl_mac_bytes(key.match.l2_dest_mac)>>,
       <<"match_l2_source_mac", acl_mac_bytes(key.match.l2_source_mac)>>,
       <<"mask_l2_dest_mac", acl_mac_bytes(key.mask.l2_dest_mac)>>,
       <<"mask_l2_source_mac", acl_mac_bytes(key.mask.l2_source_mac)>>,
       <<"match_l2_tpid", cpu_to_le16(key.match.l2_tpid)>>,
       <<"match_l2_vlan_id", cpu_to_le16(key.match.l2_vlan_id)>>,
       <<"match_l3_dest_ip", cpu_to_le32(key.match.l3_dest_ip)>>,
       <<"match_l3_source_ip", cpu_to_le32(key.match.l3_source_ip)>>,
       <<"match_l4_dest_port", cpu_to_le16(key.match.l4_dest_port)>>,
       <<"match_l4_source_port", cpu_to_le16(key.match.l4_source_port)>>,
       <<"match_l2_ether_type", cpu_to_le16(key.match.l2_ether_type)>>,
       <<"match_l2_pcp_dei", u8_bytes(key.match.l2_pcp_dei)>>,
       <<"match_l3_dscp", u8_bytes(key.match.l3_dscp)>>,
       <<"mask_l2_tpid", cpu_to_le16(key.mask.l2_tpid)>>,
       <<"mask_l2_vlan_id", cpu_to_le16(key.mask.l2_vlan_id)>>,
       <<"mask_l3_dest_ip", cpu_to_le32(key.mask.l3_dest_ip)>>,
       <<"mask_l3_source_ip", cpu_to_le32(key.mask.l3_source_ip)>>,
       <<"mask_l4_dest_port", cpu_to_le16(key.mask.l4_dest_port)>>,
       <<"mask_l4_source_port", cpu_to_le16(key.mask.l4_source_port)>>,
       <<"mask_l2_ether_type", cpu_to_le16(key.mask.l2_ether_type)>>,
       <<"mask_l2_pcp_dei", u8_bytes(key.mask.l2_pcp_dei)>>,
       <<"mask_l3_dscp", u8_bytes(key.mask.l3_dscp)>>,
       <<"match_l3_protocol", u8_bytes(key.match.l3_protocol)>>,
       <<"mask_l3_protocol", u8_bytes(key.mask.l3_protocol)>>,
       <<"match_frame_flags", u8_bytes(key.match.frame_flags)>>,
       <<"mask_frame_flags", u8_bytes(key.mask.frame_flags)>> >>

RECURSIVE acl_assign_all(_, _, _)
acl_assign_all(buf, as, k) ==
    IF k > Len(as) THEN buf
    ELSE LET next == acl_assign(buf, as[k][1], as[k][2])
         IN  IF next = next
             THEN acl_assign_all(next, as, k + 1)
             ELSE next

\* the buffer zeroed before the assignments
dpsw_acl_prepare_entry_cfg_zeroing(key, buf) ==
    acl_assign_all([i \in DOMAIN buf |-> 0], acl_assignments(key), 1)

\* the buffer after dpsw_acl_prepare_entry_cfg(key, buf)
dpsw_acl_prepare_entry_cfg(key, buf) == acl_assign_all(buf, acl_assignments(key), 1)

\* the memory an I/O address designates, after an operation was handed the
\* address: no operation dereferences it
dma_after_cleared(name, a, mem) == [i \in DOMAIN mem |-> 0]

dma_after(name, a, mem) == mem

\* key fields all zero
ZeroFields ==
    [l2_dest_mac |-> [i \in 0..5 |-> 0], l2_source_mac |-> [i \in 0..5 |-> 0],
     l2_tpid |-> 0, l2_pcp_dei |-> 0, l2_vlan_id |-> 0, l2_ether_type |-> 0,
     l3_dscp |-> 0, l3_protocol |-> 0, l3_source_ip |-> 0, l3_dest_ip |-> 0,
     l4_source_port |-> 0, l4_dest_port |-> 0, frame_flags |-> 0]

\* key fields all set, every byte of the flattened form distinct from its
\* neighbours; b tells the match half from the mask half
SetFields(b) ==
    [l2_dest_mac |-> [i \in 0..5 |-> 0], l2_source_mac |-> [i \in 0..5 |-> b + 16 + i],
     l2_tpid |-> 33024 + b, l2_pcp_dei |-> 165 + b, l2_vlan_id |-> 2748 + b,
     l2_ether_type |-> 2048 + b, l3_dscp |-> 46 + b, l3_protocol |-> 6 + b,
     l3_source_ip |-> 167772417 + b, l3_dest_ip |-> 305419896 + b,
     l4_source_port |-> 4660 + b, l4_dest_port |-> 443 + b, frame_flags |-> 1 + b]

AclKeys ==
    {[match |-> [f[1] EXCEPT !.l2_dest_mac = dm],
      mask |-> [f[2] EXCEPT !.l2_dest_mac = dk]] :
        dm \in MacAddrs, dk \in MacAddrs,
        f \in {<<ZeroFields, ZeroFields>>, <<SetFields(0), SetFields(64)>>}}

\* the caller's buffer before the call: zeroed as the function asks, or not
KeyBufs ==
    {[i \in 0..(entry_cfg_buf_size - 1) |-> 0],
     [i \in 0..(entry_cfg_buf_size - 1) |-> 170]}

\* dpsw_acl_prepare_entry_cfg(&key, buf): no command is built or submitted
KeyPrepare ==
    /\ key_pc = "ready"
    /\ key_pc' = "prepared"
    /\ key_buf' = dpsw_acl_prepare_entry_cfg(key_in, key_buf)
    /\ UNCHANGED <<key_in, key_prior, callVars, macVars, bmVars, sessVars, thVars>>

\* dpsw_acl_add_entry with the I/O address of the prepared buffer
KeyAddEntry ==
    /\ key_pc = "prepared"
    /\ pc = "idle"
    /\ \E st \in Status, io \in U32Vals, x \in {0, 4} :
        LET a == [cmd_flags |-> 0, token |-> 1, acl_id |-> 4660,
                  cfg |-> [key_iova |-> io, precedence |-> 9,
                           result |-> [action |-> x, if_id |-> 3, lookup_table |-> 0]]]
        IN  /\ Issue("dpsw_acl_add_entry", a, NoOut, st, NoRsp,
                     dpsw_acl_add_entry(a, NoOut, st, NoRsp))
            /\ key_buf' = dma_after("dpsw_acl_add_entry", a, key_buf)
    /\ UNCHANGED <<key_pc, key_in, key_prior, macVars, bmVars, sessVars, thVars>>

\* dpsw_fdb_dump with the I/O address of a buffer
KeyFdbDump ==
    /\ key_pc = "prepared"
    /\ pc = "idle"
    /\ \E st \in Status, io \in U32Vals,
          p \in {[num_entries |-> 77]},
          r \in {Rsp(0, [num_entries |-> cpu_to_le16(v)]) : v \in {0, 4660}} :
        LET a == [cmd_flags |-> 0, token |-> 1, fdb_id |-> 4660,
                  iova_addr |-> io, iova_size |-> entry_cfg_buf_size]
        IN  /\ Issue("dpsw_fdb_dump", a, p, st, r, dpsw_fdb_dump(a, p, st, r))
            /\ key_buf' = dma_after("dpsw_fdb_dump", a, key_buf)
    /\ UNCHANGED <<key_pc, key_in, key_prior, macVars, bmVars, sessVars, thVars>>

InitAclKey ==
    /\ InitCall
    /\ InitMacOff
    /\ InitBmOff
    /\ InitSessOff
    /\ InitThOff
    /\ key_pc = "ready"
    /\ key_in \in AclKeys
    /\ key_prior \in KeyBufs
    /\ key_buf = key_prior

NextAclKey ==
    \/ KeyPrepare
    \/ KeyAddEntry
    \/ KeyFdbDump
    \/ Return

SpecAclKey == InitAclKey /\ [][NextAclKey]_vars

----------------------------------------------------------------------------
(* Two threads calling into the layer at once.  A call is three steps:     *)
(* the command is built in the function's own struct fsl_mc_command, the   *)
(* transport is handed that buffer and answers in it, and the response is  *)
(* decoded from it.  The steps of the two threads interleave freely.       *)

Threads == {1, 2}

\* the buffer a call of thread t works in: struct fsl_mc_command cmd = { 0 }
\* is an automatic variable of the called function
cmd_buffer_shared(t) == 0

cmd_buffer_of(t) == t

\* the calls thread t makes, on its own token
ThCalls(t) ==
    {[op |-> "dpsw_fdb_add_multicast",
      args |-> [cmd_flags |-> 0, token |-> t, fdb_id |-> 4660,
                cfg |-> [type |-> 17, mac_addr |-> m, num_ifs |-> 2,
                         if_id |-> [i \in 0..(DPSW_MAX_IF - 1) |->
                                       IF i = 0 THEN x ELSE 8 + (i % 4)]]],
      pre |-> NoOut] : m \in PatternMacs, x \in {5, 70}}
    \cup
    {[op |-> "dpsw_if_get_tci",
      args |-> [cmd_flags |-> 0, token |-> t, if_id |-> i],
      pre |-> p] : i \in {0, 4660}, p \in PreTci}

\* what the transport may leave in the buffer of a command it carried out
ThResponses(name) ==
    IF name = "dpsw_if_get_tci"
    THEN {Rsp(0, [vlan_id |-> cpu_to_le16(v), dei |-> 1, pcp |-> 7]) : v \in {2748, 65535}}
    ELSE {NoRsp}

\* the command is built in the call's buffer
ThBuild(t) ==
    /\ th_pc[t] = "idle"
    /\ \E c \in ThCalls(t) :
        /\ th_op' = [th_op EXCEPT ![t] = c.op]
        /\ th_args' = [th_args EXCEPT ![t] = c.args]
        /\ th_pre' = [th_pre EXCEPT ![t] = c.pre]
        /\ th_buf' = [th_buf EXCEPT ![cmd_buffer_of(t)] =
                         Run(c.op, c.args, c.pre, -5, NoRsp).sent[1]]
    /\ th_pc' = [th_pc EXCEPT ![t] = "built"]
    /\ UNCHANGED <<th_err, th_rsp, th_sent, th_ret, th_out>>
    /\ UNCHANGED <<callVars, macVars, bmVars, sessVars, keyVars>>

\* mc_send_command(mc_io, &cmd): the transport takes the buffer's content,
\* returns a status and, on success, leaves the response in the buffer
ThSend(t) ==
    /\ th_pc[t] = "built"
    /\ th_sent' = [th_sent EXCEPT ![t] = <<th_buf[cmd_buffer_of(t)]>>]
    /\ \E st \in {0, -5}, r \in ThResponses(th_op[t]) :
        /\ th_err' = [th_err EXCEPT ![t] = st]
        /\ th_rsp' = [th_rsp EXCEPT ![t] = r]
        /\ th_buf' = IF st = 0 THEN [th_buf EXCEPT ![cmd_buffer_of(t)] = r]
                     ELSE th_buf
    /\ th_pc' = [th_pc EXCEPT ![t] = "sent"]
    /\ UNCHANGED <<th_op, th_args, th_pre, th_ret, th_out>>
    /\ UNCHANGED <<callVars, macVars, bmVars, sessVars, keyVars>>

\* the status is returned and, on success, the response decoded from the
\* buffer
ThDecode(t) ==
    /\ th_pc[t] = "sent"
    /\ LET res == Run(th_op[t], th_args[t], th_pre[t], th_err[t],
                      th_buf[cmd_buffer_of(t)])
       IN  /\ th_ret' = [th_ret EXCEPT ![t] = res.ret]
           /\ th_out' = [th_out EXCEPT ![t] = res.out]
    /\ th_pc' = [th_pc EXCEPT ![t] = "done"]
    /\ UNCHANGED <<th_op, th_args, th_pre, th_err, th_rsp, th_sent, th_buf>>
    /\ UNCHANGED <<callVars, macVars, bmVars, sessVars, keyVars>>

\* the caller takes the result; the function's buffer is gone
ThReturn(t) ==
    /\ th_pc[t] = "done"
    /\ th_pc' = [th_pc EXCEPT ![t] = "idle"]
    /\ th_op' = [th_op EXCEPT ![t] = "none"]
    /\ th_args' = [th_args EXCEPT ![t] = <<>>]
    /\ th_pre' = [th_pre EXCEPT ![t] = NoOut]
    /\ th_err' = [th_err EXCEPT ![t] = 0]
    /\ th_rsp' = [th_rsp EXCEPT ![t] = NoRsp]
    /\ th_sent' = [th_sent EXCEPT ![t] = <<>>]
    /\ th_ret' = [th_ret EXCEPT ![t] = 0]
    /\ th_out' = [th_out EXCEPT ![t] = NoOut]
    /\ th_buf' = [th_buf EXCEPT ![cmd_buffer_of(t)] = NoRsp]
    /\ UNCHANGED <<callVars, macVars, bmVars, sessVars, keyVars>>

InitThreads ==
    /\ InitCall
    /\ InitMacOff
    /\ InitBmOff
    /\ InitSessOff
    /\ InitKeyOff
    /\ th_pc = [t \in Threads |-> "idle"]
    /\ th_op = [t \in Threads |-> "none"]
    /\ th_args = [t \in Threads |-> <<>>]
    /\ th_pre = [t \in Threads |-> NoOut]
    /\ th_err = [t \in Threads |-> 0]
    /\ th_rsp = [t \in Threads |-> NoRsp]
    /\ th_sent = [t \in Threads |-> <<>>]
    /\ th_ret = [t \in Threads |-> 0]
    /\ th_out = [t \in Threads |-> NoOut]
    /\ th_buf = [b \in {0} \cup Threads |-> NoRsp]

NextThreads ==
    \E t \in Threads :
        \/ ThBuild(t)
        \/ ThSend(t)
        \/ ThDecode(t)
        \/ ThReturn(t)

SpecThreads == InitThreads /\ [][NextThreads]_vars

----------------------------------------------------------------------------
(* Properties *)

Min(x, y) == IF x < y THEN x ELSE y

\* bit b (0..63) of a little-endian 64-bit word given as its eight bytes
WordBit(w, b) == (w[b \div 8] \div Pow2(b % 8)) % 2

\* C1: MAC round trip.  An address encoded to wire order by a command
\* builder and decoded from that wire value by either address getter is the
\* address that was encoded.
C1_MacRoundTrip ==
    mac_pc \in {"port", "primary"} => mac_back = mac_host

C1_Witness ==
    /\ mac_pc = "port"
    /\ mac_host[0] = 1 /\ mac_host[5] = 255
    /\ mac_wire[0] = 255 /\ mac_wire[5] = 1
    /\ mac_back = mac_host

MacOps ==
    {"dpsw_fdb_add_unicast", "dpsw_fdb_remove_unicast", "dpsw_fdb_add_multicast",
     "dpsw_fdb_remove_multicast", "dpsw_if_set_primary_mac_addr"}

\* the caller's address of the call that returned
HostMac ==
    IF op = "dpsw_if_set_primary_mac_addr" THEN args.mac_addr
    ELSE args.cfg.mac_addr

\* C2: every command that carries a hardware address sends
\* wire mac_addr[i] = host mac_addr[5 - i] for every i in 0..5.
C2_MacReversedOnWire ==
    (pc = "returned" /\ op \in MacOps) =>
        \A i \in 0..5 : sent[1].params.mac_addr[i] = HostMac[5 - i]

C2_Witness ==
    /\ pc = "returned"
    /\ op = "dpsw_fdb_remove_multicast"
    /\ HostMac[0] # HostMac[5]
    /\ HostMac[1] # HostMac[4]
    /\ sent[1].params.mac_addr[0] = HostMac[5]
    /\ sent[1].params.mac_addr[4] = HostMac[1]

\* C3: on a zeroed bitmap, bit b of word 0 is set exactly when some index
\* i < min(count, 64) has id[i] = b; count 0 leaves the bitmap all zero and
\* the entries from position 64 on contribute nothing.
C3_BitmapResult ==
    (bm_pc = "built" /\ bm_in = ZeroBitmap) =>
        /\ \A b \in 0..63 :
              (WordBit(bm_out[0], b) = 1) <=>
                  (\E i \in 0..(Min(bm_num, 64) - 1) : bm_id[i] = b)
        /\ (bm_num = 0 => bm_out = ZeroBitmap)
        /\ \A k \in 64..(bm_num - 1) :
              (bm_id[k] < 64 /\ \A i \in 0..63 : bm_id[i] # bm_id[k])
                  => WordBit(bm_out[0], bm_id[k]) = 0

C3_Witness ==
    /\ bm_pc = "built"
    /\ bm_in = ZeroBitmap
    /\ bm_num = DPSW_MAX_IF + ExtraIds
    /\ bm_id[0] = 63 /\ bm_id[1] = 70 /\ bm_id[64] = 20
    /\ WordBit(bm_out[0], 63) = 1
    /\ WordBit(bm_out[0], 9) = 1
    /\ WordBit(bm_out[0], 20) = 0

IfOps ==
    {"dpsw_vlan_add_if", "dpsw_vlan_add_if_untagged", "dpsw_vlan_remove_if",
     "dpsw_vlan_remove_if_untagged", "dpsw_fdb_add_multicast",
     "dpsw_fdb_remove_multicast", "dpsw_acl_add_if", "dpsw_acl_remove_if"}

\* C4: ids >= 64 are dropped silently.  In every operation that sends an
\* interface set, a bit of word 0 is set only for an id below 64 of the list,
\* the word after word 0 is not written, one command is submitted and the
\* transport status is returned.
C4_OutOfRangeDropped ==
    (pc = "returned" /\ op \in IfOps) =>
        /\ Len(sent) = 1
        /\ ret = err
        /\ sent[1].params.if_id[1] = le64_zero
        /\ \A b \in 0..63 :
              WordBit(sent[1].params.if_id[0], b) = 1 =>
                  \E i \in 0..(Min(args.cfg.num_ifs, 64) - 1) :
                      args.cfg.if_id[i] = b

C4_Witness ==
    /\ pc = "returned"
    /\ op = "dpsw_vlan_add_if"
    /\ args.cfg.num_ifs = 1
    /\ args.cfg.if_id[0] = 64
    /\ sent[1].params.if_id = ZeroBitmap
    /\ err = 0
    /\ ret = 0

\* the ids below 64 among the first min(n, 64) entries of id
InRangeIds(id, n) == {id[i] : i \in 0..(Min(n, 64) - 1)} \cap 0..63

\* the list with its first m entries in reverse order
ReversedIds(id, m) ==
    [i \in DOMAIN id |-> IF i < m THEN id[m - 1 - i] ELSE id[i]]

\* C5: the bitmap built on a zeroed destination depends only on the set of
\* in-range ids among the first min(count, 64) entries: any short list with
\* the same set, and the same entries in reverse order, give the same bitmap.
C5_BitmapOfSetOnly ==
    (bm_pc = "built" /\ bm_in = ZeroBitmap) =>
        /\ \A id2 \in BmIdArrays, n2 \in 0..MaxBmIds :
              InRangeIds(id2, n2) = InRangeIds(bm_id, bm_num) =>
                  build_if_id_bitmap(ZeroBitmap, id2, n2) = bm_out
        /\ build_if_id_bitmap(ZeroBitmap,
                              ReversedIds(bm_id, Min(bm_num, 64)), bm_num)
              = bm_out

C5_Witness ==
    /\ bm_pc = "built"
    /\ bm_in = ZeroBitmap
    /\ bm_num = 3
    /\ bm_id[0] = 5 /\ bm_id[1] = 70 /\ bm_id[2] = 5
    /\ bm_out = [w \in 0..1 |-> IF w = 0 THEN le64_bit(5) ELSE le64_zero]
    /\ \E id2 \in BmIdArrays :
          id2[0] = 5 /\ build_if_id_bitmap(ZeroBitmap, id2, 1) = bm_out

\* the value held by the bits of a field in a slot
FieldOf(slot, field) == (slot \div Pow2(field.shift)) % Pow2(field.size)

\* two slots agree on the bits of a field
SameField(x, y, field) == FieldOf(x, field) = FieldOf(y, field)

\* the 16-bit conf word of the dpsw_if_set_tci command that was sent
TciConf == sent[1].params.conf[0] + 256 * sent[1].params.conf[1]

TciFieldOf(name) ==
    CASE name = "VLAN_ID" -> DPSW_VLAN_ID
      [] name = "DEI" -> DPSW_DEI
      [] name = "PCP" -> DPSW_PCP

TciValueOf(cfg, name) ==
    CASE name = "VLAN_ID" -> cfg.vlan_id
      [] name = "DEI" -> cfg.dei
      [] name = "PCP" -> cfg.pcp

\* a zeroed 16-bit slot after the three fields are written in the given order
TciWritten(cfg, order) ==
    LET w1 == U16(dpsw_set_field(0, TciFieldOf(order[1]), TciValueOf(cfg, order[1])))
        w2 == U16(dpsw_set_field(w1, TciFieldOf(order[2]), TciValueOf(cfg, order[2])))
    IN  U16(dpsw_set_field(w2, TciFieldOf(order[3]), TciValueOf(cfg, order[3])))

TciOrders ==
    {o \in [1..3 -> {"VLAN_ID", "DEI", "PCP"}] : o[1] # o[2] /\ o[1] # o[3] /\ o[2] # o[3]}

\* C6: for in-range pcp, dei and vlan_id the conf word sent by
\* dpsw_if_set_tci is the OR of the three values shifted to their offsets,
\* the three bit ranges are pairwise disjoint, each value is recovered by
\* masking its range, and every order of writing gives the same word.
C6_TciPacking ==
    (/\ pc = "returned" /\ op = "dpsw_if_set_tci"
     /\ args.cfg.pcp <= 7 /\ args.cfg.dei <= 1 /\ args.cfg.vlan_id <= 4095) =>
        /\ TciConf = BitOr(BitOr(args.cfg.pcp * Pow2(DPSW_PCP.shift),
                                 args.cfg.dei * Pow2(DPSW_DEI.shift)),
                           args.cfg.vlan_id * Pow2(DPSW_VLAN_ID.shift))
        /\ BitAnd(DPSW_MASK(DPSW_PCP), DPSW_MASK(DPSW_DEI)) = 0
        /\ BitAnd(DPSW_MASK(DPSW_PCP), DPSW_MASK(DPSW_VLAN_ID)) = 0
        /\ BitAnd(DPSW_MASK(DPSW_DEI), DPSW_MASK(DPSW_VLAN_ID)) = 0
        /\ BitAnd(TciConf, DPSW_MASK(DPSW_PCP)) \div Pow2(DPSW_PCP.shift)
              = args.cfg.pcp
        /\ BitAnd(TciConf, DPSW_MASK(DPSW_DEI)) \div Pow2(DPSW_DEI.shift)
              = args.cfg.dei
        /\ BitAnd(TciConf, DPSW_MASK(DPSW_VLAN_ID)) \div Pow2(DPSW_VLAN_ID.shift)
              = args.cfg.vlan_id
        /\ \A o \in TciOrders : TciWritten(args.cfg, o) = TciConf

C6_Witness ==
    /\ pc = "returned" /\ op = "dpsw_if_set_tci"
    /\ args.cfg.pcp = 7 /\ args.cfg.dei = 1 /\ args.cfg.vlan_id = 2748
    /\ TciConf = 64188
    /\ sent[1].params.conf[0] = 188 /\ sent[1].params.conf[1] = 250

\* C7: a value wider than its field is truncated to the field's width, the
\* other fields of the slot hold what they hold for the truncated value, and
\* the command is submitted with the transport status returned.
C7_OverflowTruncates ==
    /\ (pc = "returned" /\ op = "dpsw_if_set_tci") =>
          /\ Len(sent) = 1
          /\ ret = err
          /\ FieldOf(TciConf, DPSW_PCP) = args.cfg.pcp % 8
          /\ FieldOf(TciConf, DPSW_DEI) = args.cfg.dei % 2
          /\ FieldOf(TciConf, DPSW_VLAN_ID) = args.cfg.vlan_id % 4096
          /\ TciConf = (args.cfg.vlan_id % 4096) + 4096 * (args.cfg.dei % 2)
                         + 8192 * (args.cfg.pcp % 8)
    /\ (pc = "returned" /\ op = "dpsw_set_irq_enable") =>
          /\ Len(sent) = 1
          /\ ret = err
          /\ sent[1].params.enable_state = args.en % 2
    /\ (pc = "returned" /\ op = "dpsw_if_set_flooding") =>
          /\ Len(sent) = 1
          /\ ret = err
          /\ sent[1].params.enable = args.en % 2

C7_Witness ==
    /\ pc = "returned" /\ op = "dpsw_if_set_tci"
    /\ args.cfg.pcp = 8 /\ args.cfg.dei = 2 /\ args.cfg.vlan_id = 65535
    /\ TciConf = 4095
    /\ err = 0 /\ ret = 0

\* C8: each bit-field output is decided by the bits of its own field alone:
\* enabled, accept_all_vlan and admit_untagged of dpsw_if_get_attributes,
\* component_type of dpsw_get_attributes and up of dpsw_if_get_link_state.
C8_ReadsMaskExactly ==
    /\ (pc = "returned" /\ op = "dpsw_if_get_attributes" /\ ret = 0) =>
          /\ out.enabled = FieldOf(rsp.params.conf, DPSW_ENABLE)
          /\ out.accept_all_vlan = FieldOf(rsp.params.conf, DPSW_ACCEPT_ALL_VLAN)
          /\ out.admit_untagged = FieldOf(rsp.params.conf, DPSW_ADMIT_UNTAGGED)
          /\ \A c2 \in ConfVals :
                LET o2 == dpsw_if_get_attributes(
                              args, pre, 0, [rsp EXCEPT !.params.conf = c2]).out
                IN  /\ SameField(c2, rsp.params.conf, DPSW_ENABLE)
                          => o2.enabled = out.enabled
                    /\ SameField(c2, rsp.params.conf, DPSW_ACCEPT_ALL_VLAN)
                          => o2.accept_all_vlan = out.accept_all_vlan
                    /\ SameField(c2, rsp.params.conf, DPSW_ADMIT_UNTAGGED)
                          => o2.admit_untagged = out.admit_untagged
    /\ (pc = "returned" /\ op = "dpsw_get_attributes" /\ ret = 0) =>
          out.component_type
              = FieldOf(rsp.params.component_type, DPSW_COMPONENT_TYPE)
    /\ (pc = "returned" /\ op = "dpsw_if_get_link_state" /\ ret = 0) =>
          out.up = FieldOf(rsp.params.up, DPSW_UP)

C8_Witness ==
    /\ pc = "returned" /\ op = "dpsw_if_get_attributes" /\ ret = 0
    /\ rsp.params.conf = 170
    /\ out.enabled = 0
    /\ out.accept_all_vlan = 0
    /\ out.admit_untagged = 10

\* C9: the token read back from a header encoded with any command id, flags
\* and token is that token, and dpsw_open returns the token carried by the
\* response header.
C9_TokenRoundTrip ==
    /\ (pc = "returned" /\ op \notin {"dpsw_open", "dpsw_get_api_version"}) =>
          mc_cmd_hdr_read_token(sent[1]) = args.token
    /\ (pc = "returned" /\ op = "dpsw_open" /\ ret = 0) =>
          out.token = rsp.header.token[0] + 256 * rsp.header.token[1]

C9_Witness ==
    /\ pc = "returned" /\ op = "dpsw_open" /\ ret = 0
    /\ pre.token = 77
    /\ rsp.header.token[0] = 52 /\ rsp.header.token[1] = 18
    /\ out.token = 4660

\* C10: every operation returns the status of the transport's submit:
\* 0 exactly when the transport returned 0, and a nonzero status unchanged.
C10_StatusPassThrough ==
    pc = "returned" =>
        /\ ret = err
        /\ (ret = 0 <=> err = 0)

C10_Witness ==
    /\ pc = "returned" /\ op = "dpsw_get_irq_status"
    /\ err = -110
    /\ ret = -110
    /\ out = pre

\* the members of the output structures, as dpsw.h declares them
OutMembers ==
    [dpsw_get_attributes |->
        {"id", "options", "max_vlans", "max_meters_per_if", "max_fdbs",
         "max_fdb_entries", "fdb_aging_time", "max_fdb_mc_groups", "num_ifs",
         "mem_size", "num_vlans", "num_fdbs", "component_type"},
     dpsw_if_get_attributes |->
        {"num_tcs", "rate", "options", "enabled", "accept_all_vlan",
         "admit_untagged", "qdid"},
     dpsw_if_get_link_state |-> {"rate", "options", "up"},
     dpsw_if_get_tci |-> {"pcp", "dei", "vlan_id"}]

\* the outputs of the call that returned, had the output structure held p
\* before the call
OutFromPre(p) ==
    CASE op = "dpsw_get_attributes" -> dpsw_get_attributes(args, p, err, rsp).out
      [] op = "dpsw_if_get_attributes" ->
            dpsw_if_get_attributes(args, p, err, rsp).out
      [] op = "dpsw_if_get_link_state" ->
            dpsw_if_get_link_state(args, p, err, rsp).out
      [] op = "dpsw_if_get_tci" -> dpsw_if_get_tci(args, p, err, rsp).out

\* C11: when the transport returns 0, dpsw_get_attributes, dpsw_if_get_attributes,
\* dpsw_if_get_link_state and dpsw_if_get_tci assign every member of their
\* output structure (13, 7, 3 and 3 members): the outputs do not depend on
\* the pre-call content and no member keeps it.
C11_AllOutputsAssigned ==
    (pc = "returned" /\ op \in DOMAIN OutMembers /\ ret = 0) =>
        /\ DOMAIN out = OutMembers[op]
        /\ Cardinality(OutMembers["dpsw_get_attributes"]) = 13
        /\ Cardinality(OutMembers["dpsw_if_get_attributes"]) = 7
        /\ \A m \in OutMembers[op] : pre[m] = 77 => out[m] # 77
        /\ \A p2 \in {[m \in OutMembers[op] |-> v] : v \in {0, 77, 78}} :
              OutFromPre(p2) = out

C11_Witness ==
    /\ pc = "returned" /\ op = "dpsw_get_attributes" /\ ret = 0
    /\ \A m \in DOMAIN pre : pre[m] = 77
    /\ out.num_vlans = 5
    /\ out.component_type = 15
    /\ out.id = 8

\* C12: every operation submits exactly one command per call, on success
\* and on failure alike; the command is complete before the transport answers
\* (it is the same whatever status and response follow) and a failure is not
\* followed by a retry.
C12_OneSubmitPerCall ==
    pc = "returned" =>
        /\ Len(sent) = 1
        /\ Run(op, args, pre, 0, rsp).sent = sent
        /\ Run(op, args, pre, -5, NoRsp).sent = sent

C12_Witness ==
    /\ pc = "returned" /\ op = "dpsw_if_get_counter"
    /\ err = -110 /\ ret = -110
    /\ Len(sent) = 1
    /\ sent[1].header.cmd_id = "DPSW_CMDID_IF_GET_COUNTER"
    /\ out = pre

\* the names of the public operations that submit a command
OpNames ==
    {"dpsw_open", "dpsw_close", "dpsw_enable", "dpsw_disable",
     "dpsw_reset", "dpsw_set_irq_enable", "dpsw_set_irq_mask",
     "dpsw_get_irq_status", "dpsw_clear_irq_status",
     "dpsw_get_attributes", "dpsw_if_get_attributes",
     "dpsw_if_set_link_cfg", "dpsw_if_get_link_state",
     "dpsw_if_set_flooding", "dpsw_if_set_broadcast", "dpsw_if_set_tci",
     "dpsw_if_get_tci", "dpsw_if_set_stp", "dpsw_if_get_counter",
     "dpsw_if_enable", "dpsw_if_disable", "dpsw_if_set_max_frame_length",
     "dpsw_vlan_add", "dpsw_vlan_add_if", "dpsw_vlan_add_if_untagged",
     "dpsw_vlan_remove_if", "dpsw_vlan_remove_if_untagged",
     "dpsw_vlan_remove", "dpsw_fdb_add_unicast", "dpsw_fdb_dump",
     "dpsw_fdb_remove_unicast", "dpsw_fdb_add_multicast",
     "dpsw_fdb_remove_multicast", "dpsw_fdb_set_learning_mode",
     "dpsw_get_api_version", "dpsw_if_get_port_mac_addr",
     "dpsw_if_get_primary_mac_addr", "dpsw_if_set_primary_mac_addr",
     "dpsw_acl_add", "dpsw_acl_remove", "dpsw_acl_add_if",
     "dpsw_acl_remove_if", "dpsw_acl_add_entry"}

\* arguments, pre-call outputs on which every operation can be run
SampleArgs ==
    [cmd_flags |-> 0, token |-> 1, dpsw_id |-> 0, irq_index |-> 0, en |-> 1,
     mask |-> 0, status |-> 0, if_id |-> 0, type |-> 0, frame_length |-> 0,
     vlan_id |-> 1, fdb_id |-> 0, iova_addr |-> 0, iova_size |-> 0, mode |-> 0,
     acl_id |-> 0, mac_addr |-> [i \in 0..5 |-> i],
     cfg |-> [rate |-> 0, options |-> 0, vlan_id |-> 1, dei |-> 0, pcp |-> 0,
              state |-> 0, fdb_id |-> 0, num_ifs |-> 0,
              if_id |-> [i \in 0..(DPSW_MAX_IF - 1) |-> 0], type |-> 0,
              mac_addr |-> [i \in 0..5 |-> i], if_egress |-> 0,
              max_entries |-> 0, precedence |-> 0, key_iova |-> 0,
              result |-> [action |-> 0, if_id |-> 0, lookup_table |-> 0]]]
SamplePre == [status |-> 0]

\* the command id the operation called name puts in its header
CmdIdOf(name) ==
    Run(name, SampleArgs, SamplePre, -5, NoRsp).sent[1].header.cmd_id

\* C13: each operation builds its header with its own command id: no two
\* distinct operations submit the same command id.
C13_OwnCommandId ==
    pc = "returned" =>
        \A n \in OpNames \ {op} : CmdIdOf(n) # sent[1].header.cmd_id

\* C14: every operation that takes a token puts the caller's 16-bit token,
\* unmodified, in the header of the command it submits; dpsw_open and
\* dpsw_get_api_version, which take none, encode token 0.  A call made with
\* the token an earlier dpsw_open returned therefore carries that token.
C14_CallerTokenInHeader ==
    /\ (pc = "returned" /\ op \notin {"dpsw_open", "dpsw_get_api_version"}) =>
          /\ sent[1].header.token[0] = args.token % 256
          /\ sent[1].header.token[1] = args.token \div 256
    /\ (pc = "returned" /\ op \in {"dpsw_open", "dpsw_get_api_version"}) =>
          /\ "token" \notin DOMAIN args
          /\ sent[1].header.token[0] = 0
          /\ sent[1].header.token[1] = 0

C14_Witness ==
    /\ pc = "returned" /\ op = "dpsw_enable"
    /\ args.token = 65535
    /\ sent[1].header.token[0] = 255
    /\ sent[1].header.token[1] = 255
    /\ sent[1].header.cmd_id = "DPSW_CMDID_ENABLE"

VlanOps ==
    {"dpsw_vlan_add", "dpsw_vlan_add_if", "dpsw_vlan_add_if_untagged",
     "dpsw_vlan_remove_if", "dpsw_vlan_remove_if_untagged", "dpsw_vlan_remove"}

\* C16: no argument value is refused locally.  Whatever the arguments, the
\* operation submits its command, a nonzero return comes from the transport
\* only (the same call returns 0 when the transport does), and a VLAN id,
\* reserved or wider than 12 bits, goes on the wire as the 16 bits given.
C16_NoLocalValidation ==
    pc = "returned" =>
        /\ sent # <<>>
        /\ (ret # 0 => err # 0)
        /\ Run(op, args, pre, 0, rsp).ret = 0
        /\ op \in VlanOps =>
              /\ sent[1].params.vlan_id[0] = args.vlan_id % 256
              /\ sent[1].params.vlan_id[1] = args.vlan_id \div 256

C16_Witness ==
    /\ pc = "returned" /\ op = "dpsw_vlan_add"
    /\ args.vlan_id = 4096
    /\ args.token = 65535
    /\ err = 0 /\ ret = 0
    /\ sent[1].params.vlan_id[0] = 0
    /\ sent[1].params.vlan_id[1] = 16

\* a key with nothing but its destination addresses set
OnlyDestMac(key) ==
    /\ [key.match EXCEPT !.l2_dest_mac = ZeroFields.l2_dest_mac] = ZeroFields
    /\ [key.mask EXCEPT !.l2_dest_mac = ZeroFields.l2_dest_mac] = ZeroFields

\* C17: for a key with only match.l2_dest_mac and mask.l2_dest_mac set,
\* dpsw_acl_prepare_entry_cfg on a zeroed 256-byte buffer leaves the two
\* six-byte destination-address regions holding the inputs byte-reversed and
\* every other byte of the 256 zero.
C17_DestMacOnlyFlatten ==
    (key_pc = "prepared" /\ OnlyDestMac(key_in)
        /\ \A i \in DOMAIN key_prior : key_prior[i] = 0) =>
        LET m == dpsw_prep_acl_entry.match_l2_dest_mac
            k == dpsw_prep_acl_entry.mask_l2_dest_mac
        IN  /\ DOMAIN key_buf = 0..255
            /\ (m + 6 <= k \/ k + 6 <= m) /\ m + 6 <= 256 /\ k + 6 <= 256
            /\ \A i \in 0..255 :
                key_buf[i] =
                    IF m <= i /\ i < m + 6 THEN key_in.match.l2_dest_mac[5 - (i - m)]
                    ELSE IF k <= i /\ i < k + 6 THEN key_in.mask.l2_dest_mac[5 - (i - k)]
                    ELSE 0

C17_Witness ==
    /\ key_pc = "prepared" /\ OnlyDestMac(key_in)
    /\ \A i \in DOMAIN key_prior : key_prior[i] = 0
    /\ key_in.match.l2_dest_mac[0] = 1 /\ key_in.match.l2_dest_mac[5] = 6
    /\ key_in.mask.l2_dest_mac[0] = 255
    /\ key_buf[dpsw_prep_acl_entry.match_l2_dest_mac] = 6
    /\ key_buf[dpsw_prep_acl_entry.match_l2_dest_mac + 5] = 1
    /\ key_buf[dpsw_prep_acl_entry.mask_l2_dest_mac] = 255
    /\ key_buf[255] = 0

\* C18: key memory is referenced, never touched, by commands.
\* dpsw_acl_prepare_entry_cfg submits nothing and changes nothing but the
\* caller's buffer; dpsw_acl_add_entry and dpsw_fdb_dump put the 64-bit
\* address they are given in their command, little-endian, and leave the
\* memory it designates as it was, whatever the transport answers.
C18_KeyMemoryUntouched ==
    [][/\ (key_pc = "ready" /\ key_pc' = "prepared") =>
            /\ UNCHANGED callVars
            /\ key_in' = key_in
       /\ (pc = "idle" /\ pc' = "returned") =>
            /\ key_buf' = key_buf
            /\ Len(sent') = 1
            /\ op' = "dpsw_acl_add_entry" =>
                  sent'[1].params.key_iova = cpu_to_le64(args'.cfg.key_iova)
            /\ op' = "dpsw_fdb_dump" =>
                  sent'[1].params.iova_addr = cpu_to_le64(args'.iova_addr)]_vars

C18_Witness ==
    /\ pc = "returned" /\ op = "dpsw_acl_add_entry"
    /\ key_pc = "prepared"
    /\ key_buf = dpsw_acl_prepare_entry_cfg(key_in, key_prior)
    /\ key_buf[0] = 6 /\ key_buf[8] = 21
    /\ args.cfg.key_iova = 305419896
    /\ sent[1].params.key_iova[0] = 120 /\ sent[1].params.key_iova[3] = 18
    /\ sent[1].params.key_iova[7] = 0

\* (value >> 8k) mod 256; the values explored are below 2^31, so k >= 4
\* gives 0
ByteOf(v, k) == IF k < 4 THEN (v \div Pow2(8 * k)) % 256 ELSE 0

\* an n-byte field holding v little-endian
LeWritten(bytes, n, v) ==
    /\ DOMAIN bytes = 0..(n - 1)
    /\ \A k \in 0..(n - 1) : bytes[k] = ByteOf(v, k)

\* the value of a little-endian field whose bytes from the fifth on are 0
LeValue(bytes) ==
    bytes[0] + 256 * bytes[1]
      + (IF 2 \in DOMAIN bytes THEN 65536 * bytes[2] + 16777216 * bytes[3] ELSE 0)

\* the decoder of an n-byte field
LeDecode(n, bytes) ==
    CASE n = 2 -> le16_to_cpu(bytes)
      [] n = 4 -> le32_to_cpu(bytes)
      [] n = 8 -> le64_to_cpu(bytes)

\* scalar payload fields of the command of the call that returned:
\* (field, width in bytes, caller's value)
ScalarsSent ==
    CASE op = "dpsw_if_set_link_cfg" ->
            {<<"if_id", 2, args.if_id>>, <<"rate", 4, args.cfg.rate>>,
             <<"options", 8, args.cfg.options>>}
      [] op = "dpsw_if_get_link_state" -> {<<"if_id", 2, args.if_id>>}
      [] op = "dpsw_if_get_counter" -> {<<"if_id", 2, args.if_id>>}
      [] op = "dpsw_if_set_max_frame_length" ->
            {<<"if_id", 2, args.if_id>>, <<"frame_length", 2, args.frame_length>>}
      [] op = "dpsw_open" -> {<<"dpsw_id", 4, args.dpsw_id>>}
      [] op = "dpsw_set_irq_mask" -> {<<"mask", 4, args.mask>>}
      [] op = "dpsw_vlan_add" ->
            {<<"fdb_id", 2, args.cfg.fdb_id>>, <<"vlan_id", 2, args.vlan_id>>}
      [] op = "dpsw_vlan_remove" -> {<<"vlan_id", 2, args.vlan_id>>}
      [] op = "dpsw_fdb_dump" ->
            {<<"fdb_id", 2, args.fdb_id>>, <<"iova_addr", 8, args.iova_addr>>,
             <<"iova_size", 4, args.iova_size>>}
      [] op = "dpsw_acl_add" -> {<<"max_entries", 2, args.cfg.max_entries>>}
      [] op = "dpsw_acl_remove" -> {<<"acl_id", 2, args.acl_id>>}
      [] op = "dpsw_acl_add_entry" ->
            {<<"acl_id", 2, args.acl_id>>, <<"result_if_id", 2, args.cfg.result.if_id>>,
             <<"precedence", 4, args.cfg.precedence>>,
             <<"key_iova", 8, args.cfg.key_iova>>}
      [] OTHER -> {}

\* scalar response fields the call that returned decodes:
\* (output member, response field)
ScalarsRead ==
    CASE op = "dpsw_if_get_link_state" -> {<<"rate", "rate">>, <<"options", "options">>}
      [] op = "dpsw_if_get_counter" -> {<<"counter", "counter">>}
      [] op = "dpsw_acl_add" -> {<<"acl_id", "acl_id">>}
      [] op = "dpsw_fdb_dump" -> {<<"num_entries", "num_entries">>}
      [] op = "dpsw_get_api_version" ->
            {<<"major_ver", "version_major">>, <<"minor_ver", "version_minor">>}
      [] op = "dpsw_get_attributes" ->
            {<<"num_ifs", "num_ifs">>, <<"max_vlans", "max_vlans">>,
             <<"id", "dpsw_id">>, <<"mem_size", "mem_size">>}
      [] OTHER -> {}

\* the response a transport gives that hands the link configuration written
\* by dpsw_if_set_link_cfg back to dpsw_if_get_link_state
LinkEcho == Rsp(0, [rate |-> sent[1].params.rate,
                    options |-> sent[1].params.options, up |-> 1])

Alone(t) == Run(th_op[t], th_args[t], th_pre[t], th_err[t], th_rsp[t])

\* C20: re-entrancy.  However the steps of two threads, each on its own
\* token, interleave, a call hands the transport exactly the command it
\* builds when run alone and returns exactly the status and outputs it
\* returns when run alone on the same arguments and the same response; the
\* buffer of one call is not the buffer of the other and is not changed by
\* the other's steps.
C20_ReentrantCalls ==
    \A t \in Threads :
        /\ th_pc[t] = "built" =>
              th_buf[cmd_buffer_of(t)] =
                  Run(th_op[t], th_args[t], th_pre[t], -5, NoRsp).sent[1]
        /\ th_pc[t] \in {"sent", "done"} =>
              /\ th_sent[t] = Alone(t).sent
              /\ th_buf[cmd_buffer_of(t)] =
                     IF th_err[t] = 0 THEN th_rsp[t] ELSE th_sent[t][1]
        /\ th_pc[t] = "done" =>
              /\ th_ret[t] = Alone(t).ret
              /\ th_out[t] = Alone(t).out

C20_Witness ==
    /\ th_pc[1] = "done" /\ th_op[1] = "dpsw_if_get_tci"
    /\ th_err[1] = 0 /\ th_out[1].vlan_id = 2748 /\ th_pre[1].vlan_id = 77
    /\ th_pc[2] = "sent" /\ th_op[2] = "dpsw_fdb_add_multicast"
    /\ th_sent[2][1].header.cmd_id = "DPSW_CMDID_FDB_ADD_MULTICAST"
    /\ th_sent[2][1].header.token[0] = 2
    /\ th_sent[1][1].header.token[0] = 1
    /\ th_buf[1] # th_buf[2]

\* the operations that have output parameters
OutOps ==
    {"dpsw_open", "dpsw_get_irq_status", "dpsw_get_attributes",
     "dpsw_if_get_attributes", "dpsw_if_get_link_state", "dpsw_if_get_tci",
     "dpsw_if_get_counter", "dpsw_fdb_dump", "dpsw_get_api_version",
     "dpsw_if_get_port_mac_addr", "dpsw_if_get_primary_mac_addr", "dpsw_acl_add"}

\* C21: outputs untouched on failure.  When the transport returns a nonzero
\* status, an operation with output parameters returns with every one of
\* them holding its pre-call value, whatever the buffer holds; the
\* operations with output parameters are the twelve listed.
C21_OutputsUntouchedOnFailure ==
    pc = "returned" =>
        /\ (op \in OutOps <=> pre # NoOut)
        /\ err # 0 =>
              /\ ret # 0
              /\ DOMAIN out = DOMAIN pre
              /\ \A m \in DOMAIN pre : out[m] = pre[m]

C21_Witness ==
    /\ pc = "returned" /\ op = "dpsw_acl_add"
    /\ err = -5 /\ ret = -5
    /\ rsp.params.acl_id[0] = 52 /\ rsp.params.acl_id[1] = 18
    /\ pre.acl_id = 77
    /\ out.acl_id = 77

\* C22: the bitmap builder only ORs bits in.  Whatever the destination held,
\* every bit set before the call is set after it and a bit differs only if
\* it is the bit of an in-range id among the first min(count, 64) entries;
\* a public caller starts from a zeroed command, so the bitmap it sends has
\* the bits of those ids and no others.
C22_BitmapOnlyOrsIn ==
    bm_pc = "built" =>
        /\ \A w \in 0..1, b \in 0..63 :
              /\ WordBit(bm_in[w], b) = 1 => WordBit(bm_out[w], b) = 1
              /\ WordBit(bm_out[w], b) # WordBit(bm_in[w], b) =>
                    (w = 0 /\ b \in InRangeIds(bm_id, bm_num))
        /\ LET wire == dpsw_acl_add_if(
                           [cmd_flags |-> 0, token |-> 1, acl_id |-> 0,
                            cfg |-> [num_ifs |-> bm_num, if_id |-> bm_id]],
                           NoOut, 0, NoRsp).sent[1].params.if_id
           IN  \A w \in 0..1, b \in 0..63 :
                  WordBit(wire[w], b) = 1 =>
                      (w = 0 /\ b \in InRangeIds(bm_id, bm_num))

C22_Witness ==
    /\ bm_pc = "built"
    /\ bm_in # ZeroBitmap
    /\ WordBit(bm_in[0], 40) = 1 /\ WordBit(bm_in[1], 1) = 1
    /\ bm_num = 2
    /\ bm_id[0] = 63 /\ bm_id[1] = 70
    /\ WordBit(bm_out[0], 63) = 1
    /\ WordBit(bm_out[0], 40) = 1 /\ WordBit(bm_out[0], 5) = 1
    /\ WordBit(bm_out[1], 1) = 1
    /\ WordBit(bm_out[1], 6) = 0

SetOps ==
    {"dpsw_fdb_add_multicast", "dpsw_fdb_remove_multicast",
     "dpsw_acl_add_if", "dpsw_acl_remove_if"}

\* the number of bits set in a bitmap
BitsSet(bmap) ==
    Cardinality({<<w, b>> \in (DOMAIN bmap) \X (0..63) : WordBit(bmap[w], b) = 1})

\* the interface list 5, 70, 5 followed by entries that are not counted
Ids_5_70_5 ==
    [i \in 0..(DPSW_MAX_IF - 1) |-> IF i = 1 THEN 70 ELSE IF i < 3 THEN 5 ELSE 9]

\* C23: in the four operations on interface sets of an FDB group or an ACL,
\* the num_ifs sent is the caller's cfg->num_ifs as given, neither capped at
\* 64 nor reduced for dropped or repeated ids, while the bitmap sent has at
\* most min(cfg->num_ifs, 64) bits set; ids 5, 70, 5 with num_ifs 3 send
\* num_ifs 3 and one bit.
C23_CountSentAsGiven ==
    (pc = "returned" /\ op \in SetOps) =>
        /\ sent[1].params.num_ifs[0] = args.cfg.num_ifs % 256
        /\ sent[1].params.num_ifs[1] = args.cfg.num_ifs \div 256
        /\ BitsSet(sent[1].params.if_id) <= Min(args.cfg.num_ifs, 64)
        /\ LET p357 == Run(op, [args EXCEPT !.cfg.num_ifs = 3,
                                            !.cfg.if_id = Ids_5_70_5],
                           pre, err, rsp).sent[1].params
           IN  /\ le16_to_cpu(p357.num_ifs) = 3
               /\ BitsSet(p357.if_id) = 1
               /\ WordBit(p357.if_id[0], 5) = 1

C23_Witness ==
    /\ pc = "returned" /\ op = "dpsw_acl_add_if"
    /\ args.cfg.num_ifs = DPSW_MAX_IF + 1
    /\ args.cfg.if_id[0] = 5 /\ args.cfg.if_id[1] = 70
    /\ sent[1].params.num_ifs[0] = 65
    /\ BitsSet(sent[1].params.if_id) = 5
    /\ WordBit(sent[1].params.if_id[0], 5) = 1

\* readers of a buffer region: a little-endian 16- or 32-bit member and a
\* hardware address stored last byte first
Rd16(buf, o) == buf[o] + 256 * buf[o + 1]
Rd32(buf, o) == buf[o] + 256 * buf[o + 1] + 65536 * buf[o + 2] + 16777216 * buf[o + 3]
RdMac(buf, o) == [i \in 0..5 |-> buf[o + 5 - i]]

\* the key read back from a flattened buffer, each field from its own member
KeyFromBuf(buf) ==
    LET L == dpsw_prep_acl_entry
    IN  [match |->
            [l2_dest_mac |-> RdMac(buf, L.match_l2_dest_mac),
             l2_source_mac |-> RdMac(buf, L.match_l2_source_mac),
             l2_tpid |-> Rd16(buf, L.match_l2_tpid),
             l2_pcp_dei |-> buf[L.match_l2_pcp_dei],
             l2_vlan_id |-> Rd16(buf, L.match_l2_vlan_id),
             l2_ether_type |-> Rd16(buf, L.match_l2_ether_type),
             l3_dscp |-> buf[L.match_l3_dscp],
             l3_protocol |-> buf[L.match_l3_protocol],
             l3_source_ip |-> Rd32(buf, L.match_l3_source_ip),
             l3_dest_ip |-> Rd32(buf, L.match_l3_dest_ip),
             l4_source_port |-> Rd16(buf, L.match_l4_source_port),
             l4_dest_port |-> Rd16(buf, L.match_l4_dest_port),
             frame_flags |-> buf[L.match_frame_flags]],
         mask |->
            [l2_dest_mac |-> RdMac(buf, L.mask_l2_dest_mac),
             l2_source_mac |-> RdMac(buf, L.mask_l2_source_mac),
             l2_tpid |-> Rd16(buf, L.mask_l2_tpid),
             l2_pcp_dei |-> buf[L.mask_l2_pcp_dei],
             l2_vlan_id |-> Rd16(buf, L.mask_l2_vlan_id),
             l2_ether_type |-> Rd16(buf, L.mask_l2_ether_type),
             l3_dscp |-> buf[L.mask_l3_dscp],
             l3_protocol |-> buf[L.mask_l3_protocol],
             l3_source_ip |-> Rd32(buf, L.mask_l3_source_ip),
             l3_dest_ip |-> Rd32(buf, L.mask_l3_dest_ip),
             l4_source_port |-> Rd16(buf, L.mask_l4_source_port),
             l4_dest_port |-> Rd16(buf, L.mask_l4_dest_port),
             frame_flags |-> buf[L.mask_frame_flags]]]

\* the bytes of the buffer a member occupies, by the width of what is
\* assigned to it
RegionOf(asg) ==
    {dpsw_prep_acl_entry[asg[1]] + k : k \in DOMAIN asg[2]}

\* a key and the keys that differ from it in one field of one half
KeyVariants(key) ==
    {[key EXCEPT ![h][f] = IF f \in {"l2_dest_mac", "l2_source_mac"}
                           THEN [@ EXCEPT ![3] = (@ + 1) % 256]
                           ELSE (@ + 1) % 256] :
        h \in {"match", "mask"}, f \in DOMAIN ZeroFields}

\* C24: the flatten is lossless.  dpsw_acl_prepare_entry_cfg writes the 13
\* fields of key->match and the 13 of key->mask, each to its own member of
\* the buffer, no two members sharing a byte; every field is read back from
\* its member alone, and a key that differs in any one field gives a
\* different buffer from the same initial buffer.
C24_FlattenLossless ==
    key_pc = "prepared" =>
        LET asgs == acl_assignments(key_in)
        IN  /\ Cardinality(DOMAIN ZeroFields) = 13
            /\ Len(asgs) = 26
            /\ Cardinality({asgs[i][1] : i \in 1..26}) = 26
            /\ \A i \in 1..26 :
                  /\ RegionOf(asgs[i]) \subseteq 0..(entry_cfg_buf_size - 1)
                  /\ \A j \in 1..26 :
                        i # j => RegionOf(asgs[i]) \cap RegionOf(asgs[j]) = {}
            /\ pc = "idle" =>
                  /\ Cardinality(KeyVariants(key_in)) = 26
                  /\ \A k2 \in KeyVariants(key_in) :
                        dpsw_acl_prepare_entry_cfg(k2, key_prior) # key_buf
            /\ KeyFromBuf(key_buf) = key_in

C24_Witness ==
    /\ key_pc = "prepared" /\ pc = "idle"
    /\ key_in.match.l2_tpid = 33024
    /\ key_in.mask.l3_protocol = 70
    /\ key_in.match.l2_dest_mac[0] = 1
    /\ key_buf[dpsw_prep_acl_entry.match_l2_tpid] = 0
    /\ key_buf[dpsw_prep_acl_entry.match_l2_tpid + 1] = 129
    /\ key_buf[dpsw_prep_acl_entry.mask_l3_protocol] = 70
    /\ key_buf[dpsw_prep_acl_entry.match_frame_flags] = 1
    /\ key_buf[dpsw_prep_acl_entry.mask_frame_flags] = 65
    /\ key_prior[0] = 170

\* the bytes of the buffer that belong to some member
FieldBytes(key) ==
    UNION {RegionOf(acl_assignments(key)[i]) : i \in 1..Len(acl_assignments(key))}

\* a few keys to flatten over an already flattened buffer
SecondKeys == {k \in AclKeys : k.match.l2_dest_mac = k.mask.l2_dest_mac}

\* C25: the flatten assigns; it neither clears nor accumulates.  A byte of
\* the 256 that belongs to no member is left as found, a byte of a member
\* holds what the key gives whatever it held before, and flattening a second
\* key over the result gives what flattening that key alone gives.
C25_FlattenAssigns ==
    key_pc = "prepared" =>
        LET fields == FieldBytes(key_in)
            other  == dpsw_acl_prepare_entry_cfg(
                          key_in, [j \in DOMAIN key_prior |-> 85])
        IN  /\ \A i \in 0..(entry_cfg_buf_size - 1) :
                  IF i \in fields THEN key_buf[i] = other[i]
                  ELSE key_buf[i] = key_prior[i]
            /\ pc = "idle" =>
                  \A k2 \in SecondKeys :
                      dpsw_acl_prepare_entry_cfg(k2, key_buf)
                          = dpsw_acl_prepare_entry_cfg(k2, key_prior)

C25_Witness ==
    /\ key_pc = "prepared" /\ pc = "idle"
    /\ key_prior[0] = 170
    /\ key_in.match.l2_dest_mac[5] = 6
    /\ key_in.match.l4_dest_port = 443
    /\ key_buf[0] = 6
    /\ key_buf[dpsw_prep_acl_entry.match_l4_dest_port] = 187
    /\ key_buf[dpsw_prep_acl_entry.match_l4_dest_port + 1] = 1
    /\ key_buf[68] = 170
    /\ key_buf[255] = 170

\* C26: dpsw_get_irq_status uses *status in both directions.  The command
\* it submits carries the pre-call *status, little-endian, next to
\* irq_index, so it changes with the prior content of the output parameter;
\* on success *status becomes the status decoded from the response.
C26_IrqStatusBothWays ==
    (pc = "returned" /\ op = "dpsw_get_irq_status") =>
        /\ \A k \in 0..3 : sent[1].params.status[k] = ByteOf(pre.status, k)
        /\ sent[1].params.irq_index = args.irq_index
        /\ DOMAIN sent[1].params = {"status", "irq_index"}
        /\ \A v \in {0, 77, 305419896} :
              v # pre.status =>
                  dpsw_get_irq_status(args, [status |-> v], err, rsp).sent # sent
        /\ ret = 0 => out.status = LeValue(rsp.params.status)
        /\ ret # 0 => out.status = pre.status

C26_Witness ==
    /\ pc = "returned" /\ op = "dpsw_get_irq_status"
    /\ pre.status = 77
    /\ args.irq_index = 1
    /\ sent[1].params.status[0] = 77 /\ sent[1].params.status[1] = 0
    /\ err = 0 /\ ret = 0
    /\ rsp.params.status[0] = 120 /\ rsp.params.status[3] = 18
    /\ out.status = 305419896

\* the payload of dpsw_if_set_tci read through struct dpsw_rsp_if_get_tci:
\* both start with a 16-bit field followed by a 16-bit field, so the conf
\* word lies where the response has vlan_id, and the dei and pcp bytes
\* that follow lie in the part of the payload set left zero
dpsw_rsp_if_get_tci_over(params) ==
    [vlan_id |-> params.conf, dei |-> 0, pcp |-> 0]

\* C27: dpsw_if_get_tci is not the inverse of dpsw_if_set_tci's packing.
\* Set packs vlan_id (12 bits), dei (1 bit) and pcp (3 bits) into one
\* 16-bit conf word; get copies pcp and dei as whole bytes and vlan_id as
\* a whole 16-bit field from three separate response fields, unmasked.
\* The payload of set fed back as the response comes back as vlan_id = conf,
\* dei = 0, pcp = 0, which are the values set only when pcp and dei were 0
\* and vlan_id fitted in 12 bits.
C27_GetTciNotInverse ==
    /\ (pc = "returned" /\ op = "dpsw_if_get_tci" /\ ret = 0) =>
          /\ out.pcp = rsp.params.pcp
          /\ out.dei = rsp.params.dei
          /\ out.vlan_id = LeValue(rsp.params.vlan_id)
    /\ (pc = "returned" /\ op = "dpsw_if_set_tci") =>
          LET back == dpsw_if_get_tci(args, [pcp |-> 77, dei |-> 77, vlan_id |-> 77], 0,
                                      Rsp(0, dpsw_rsp_if_get_tci_over(sent[1].params))).out
          IN  /\ DOMAIN sent[1].params = {"if_id", "conf"}
              /\ TciConf = (args.cfg.vlan_id % 4096) + 4096 * (args.cfg.dei % 2)
                             + 8192 * (args.cfg.pcp % 8)
              /\ back.vlan_id = TciConf /\ back.dei = 0 /\ back.pcp = 0
              /\ (back = args.cfg) <=>
                    (args.cfg.pcp = 0 /\ args.cfg.dei = 0 /\ args.cfg.vlan_id <= 4095)

C27_Witness ==
    /\ pc = "returned" /\ op = "dpsw_if_get_tci" /\ ret = 0
    /\ out.pcp = 255 /\ out.dei = 255 /\ out.vlan_id = 65535

\* the call made with one of the seven inputs of the command replaced
AclEntryWith(name, v) ==
    CASE name = "cmd_flags" -> [args EXCEPT !.cmd_flags = v]
      [] name = "token" -> [args EXCEPT !.token = v]
      [] name = "acl_id" -> [args EXCEPT !.acl_id = v]
      [] name = "result.if_id" -> [args EXCEPT !.cfg.result.if_id = v]
      [] name = "result.action" -> [args EXCEPT !.cfg.result.action = v]
      [] name = "precedence" -> [args EXCEPT !.cfg.precedence = v]
      [] name = "key_iova" -> [args EXCEPT !.cfg.key_iova = v]

AclEntryInputs ==
    {"cmd_flags", "token", "acl_id", "result.if_id", "result.action",
     "precedence", "key_iova"}

\* C28: the command built by dpsw_acl_add_entry is a function of exactly
\* cmd_flags, token, acl_id, cfg->result.if_id, cfg->result.action,
\* cfg->precedence and cfg->key_iova.  A call that differs only in
\* cfg->result.lookup_table (or in the transport's answer) submits the same
\* command, no payload field carries the lookup table, and each of the
\* seven inputs does reach the command.
C28_LookupTableNotSent ==
    (pc = "returned" /\ op = "dpsw_acl_add_entry") =>
        /\ Len(sent) = 1
        /\ DOMAIN sent[1].params =
              {"acl_id", "result_if_id", "precedence", "key_iova", "result_action"}
        /\ \A l \in {0, 1, 2, 255}, st \in Status :
              dpsw_acl_add_entry([args EXCEPT !.cfg.result.lookup_table = l],
                                 pre, st, rsp).sent = sent
        /\ \A name \in AclEntryInputs : \E v \in {0, 1, 4, 9, 4660} :
              dpsw_acl_add_entry(AclEntryWith(name, v), pre, err, rsp).sent # sent

C28_Witness ==
    /\ pc = "returned" /\ op = "dpsw_acl_add_entry"
    /\ args.cfg.result.lookup_table = 2
    /\ args.cfg.result.action = 4
    /\ args.cfg.result.if_id = 4660
    /\ args.cfg.key_iova = 305419896
    /\ sent = dpsw_acl_add_entry([args EXCEPT !.cfg.result.lookup_table = 0],
                                 pre, err, rsp).sent

\* the payload fields each operation writes through cmd_params before it
\* submits the command
PayloadFields(name) ==
    CASE name = "dpsw_open" -> {"dpsw_id"}
      [] name = "dpsw_close" -> {}
      [] name = "dpsw_enable" -> {}
      [] name = "dpsw_disable" -> {}
      [] name = "dpsw_reset" -> {}
      [] name = "dpsw_set_irq_enable" -> {"enable_state", "irq_index"}
      [] name = "dpsw_set_irq_mask" -> {"mask", "irq_index"}
      [] name = "dpsw_get_irq_status" -> {"status", "irq_index"}
      [] name = "dpsw_clear_irq_status" -> {"status", "irq_index"}
      [] name = "dpsw_get_attributes" -> {}
      [] name = "dpsw_if_get_attributes" -> {"if_id"}
      [] name = "dpsw_if_set_link_cfg" -> {"if_id", "rate", "options"}
      [] name = "dpsw_if_get_link_state" -> {"if_id"}
      [] name = "dpsw_if_set_flooding" -> {"if_id", "enable"}
      [] name = "dpsw_if_set_broadcast" -> {"if_id", "enable"}
      [] name = "dpsw_if_set_tci" -> {"if_id", "conf"}
      [] name = "dpsw_if_get_tci" -> {"if_id"}
      [] name = "dpsw_if_set_stp" -> {"if_id", "vlan_id", "state"}
      [] name = "dpsw_if_get_counter" -> {"if_id", "type"}
      [] name = "dpsw_if_enable" -> {"if_id"}
      [] name = "dpsw_if_disable" -> {"if_id"}
      [] name = "dpsw_if_set_max_frame_length" -> {"if_id", "frame_length"}
      [] name = "dpsw_vlan_add" -> {"fdb_id", "vlan_id"}
      [] name = "dpsw_vlan_add_if" -> {"vlan_id", "if_id"}
      [] name = "dpsw_vlan_add_if_untagged" -> {"vlan_id", "if_id"}
      [] name = "dpsw_vlan_remove_if" -> {"vlan_id", "if_id"}
      [] name = "dpsw_vlan_remove_if_untagged" -> {"vlan_id", "if_id"}
      [] name = "dpsw_vlan_remove" -> {"vlan_id"}
      [] name = "dpsw_fdb_add_unicast" ->
            {"fdb_id", "if_egress", "mac_addr", "type"}
      [] name = "dpsw_fdb_dump" -> {"fdb_id", "iova_addr", "iova_size"}
      [] name = "dpsw_fdb_remove_unicast" ->
            {"fdb_id", "mac_addr", "if_egress", "type"}
      [] name = "dpsw_fdb_add_multicast" ->
            {"fdb_id", "num_ifs", "type", "if_id", "mac_addr"}
      [] name = "dpsw_fdb_remove_multicast" ->
            {"fdb_id", "num_ifs", "type", "if_id", "mac_addr"}
      [] name = "dpsw_fdb_set_learning_mode" -> {"fdb_id", "mode"}
      [] name = "dpsw_get_api_version" -> {}
      [] name = "dpsw_if_get_port_mac_addr" -> {"if_id"}
      [] name = "dpsw_if_get_primary_mac_addr" -> {"if_id"}
      [] name = "dpsw_if_set_primary_mac_addr" -> {"if_id", "mac_addr"}
      [] name = "dpsw_acl_add" -> {"max_entries"}
      [] name = "dpsw_acl_remove" -> {"acl_id"}
      [] name = "dpsw_acl_add_if" -> {"acl_id", "num_ifs", "if_id"}
      [] name = "dpsw_acl_remove_if" -> {"acl_id", "num_ifs", "if_id"}
      [] name = "dpsw_acl_add_entry" ->
            {"acl_id", "result_if_id", "precedence", "key_iova", "result_action"}

\* the operations that write no payload field
NoPayloadOps ==
    {"dpsw_close", "dpsw_enable", "dpsw_disable", "dpsw_reset",
     "dpsw_get_attributes", "dpsw_get_api_version"}

\* C29: every command buffer starts all-zero and only the fields named by
\* the operation are written.  Whatever an earlier call left in the storage
\* of the buffer, the command submitted has exactly the payload fields the
\* operation writes and nothing else: dpsw_close, dpsw_enable, dpsw_disable,
\* dpsw_reset, dpsw_get_attributes and dpsw_get_api_version submit an empty
\* (all-zero) payload, and every command is the one built from the call's
\* own arguments on a zeroed buffer.
C29_ZeroedCommandBuffer ==
    pc = "returned" =>
        /\ Len(sent) = 1
        /\ DOMAIN sent[1].params = PayloadFields(op)
        /\ op \in NoPayloadOps => sent[1].params = <<>>
        /\ \A storage \in StaleStorage :
              /\ DOMAIN storage.params # {}
              /\ sent[1] = cmd_written(cmd_zero_init(storage),
                                       Run(op, args, pre, err, rsp).sent[1])

C29_Witness ==
    /\ pc = "returned" /\ op = "dpsw_vlan_remove"
    /\ args.vlan_id = 4095
    /\ sent[1].header.cmd_id = "DPSW_CMDID_VLAN_REMOVE"
    /\ sent[1].params = [vlan_id |-> cpu_to_le16(4095)]
    /\ \E storage \in StaleStorage : "acl_id" \in DOMAIN storage.params

====
